---- MODULE Spec2Model ----
(***************************************************************************)
(* Costing GPT: the multi-layer tariff extraction pipeline                 *)
(* (structured model -> regex -> LLM) and the tariff reconciler that       *)
(* writes the normalized hotel.* schema.                                   *)
(*                                                                         *)
(* JavaScript values are tagged records.  A JavaScript string is a         *)
(* sequence of tokens: a token is one digit, one punctuation character,    *)
(* one blank, or one whole word of letters.  Words that contain a label    *)
(* keyword as a proper substring are not part of the token alphabet.       *)
(***************************************************************************)
EXTENDS Integers, Sequences, FiniteSets, TLC

(***************************************************************************)
(* Bounds of the model.                                                    *)
(***************************************************************************)
\* number of text segments an analyzer content string is built from
MaxSegs == 2
\* number of entries of a mealPlan object map in an LLM reply
MaxMeals == 2

(***************************************************************************)
(* JavaScript values.                                                      *)
(***************************************************************************)
Str(s) == [t |-> "str", s |-> s]
Num(n) == [t |-> "num", n |-> n]
NaN == [t |-> "nan"]
Undef == [t |-> "undef"]
\* null: the JavaScript value, and the record no method produced
Null == [t |-> "null"]
Bool(b) == [t |-> "bool", b |-> b]
\* an object literal: the sequence of its <<key, value>> entries in key order
Obj(e) == [t |-> "obj", e |-> e]
\* an array literal: the sequence of its elements
Arr(a) == [t |-> "arr", a |-> a]

EmptyStr == Str(<< >>)
IsStr(v) == v.t = "str"
IsScalar(v) == v.t \in {"str", "num", "nan"}

\* ToBoolean
Truthy(v) ==
  CASE v.t = "str" -> v.s # << >>
    [] v.t = "num" -> v.n # 0
    [] v.t = "bool" -> v.b
    [] v.t \in {"obj", "arr"} -> TRUE
    [] OTHER -> FALSE

\* a || b
Or(a, b) == IF Truthy(a) THEN a ELSE b

\* a ?? b
Nullish(a, b) == IF a.t \in {"undef", "null"} THEN b ELSE a

Digits == {"0", "1", "2", "3", "4", "5", "6", "7", "8", "9"}
Blanks == {" "}
Puncts == {":", "-", ",", ".", "%", "&", "/"}

IsDigit(c) == c \in Digits
IsSpace(c) == c \in Blanks
\* \w : a digit or a word of letters
IsWordChar(c) == c \notin Blanks /\ c \notin Puncts

DigitVal(c) ==
  CASE c = "0" -> 0 [] c = "1" -> 1 [] c = "2" -> 2 [] c = "3" -> 3
    [] c = "4" -> 4 [] c = "5" -> 5 [] c = "6" -> 6 [] c = "7" -> 7
    [] c = "8" -> 8 [] c = "9" -> 9

\* first position >= i of s that holds no blank (Len(s)+1 when there is none)
RECURSIVE SkipWs(_, _)
SkipWs(s, i) ==
  IF i <= Len(s) /\ IsSpace(s[i]) THEN SkipWs(s, i + 1) ELSE i

\* String.prototype.trim
RECURSIVE TrimLeft(_)
TrimLeft(s) == IF s # << >> /\ IsSpace(Head(s)) THEN TrimLeft(Tail(s)) ELSE s
RECURSIVE TrimRight(_)
TrimRight(s) ==
  IF s # << >> /\ IsSpace(s[Len(s)]) THEN TrimRight(SubSeq(s, 1, Len(s) - 1)) ELSE s
Trim(s) == TrimRight(TrimLeft(s))

\* value of the digit run of s that starts at i, continuing from acc
RECURSIVE DigitRun(_, _, _)
DigitRun(s, i, acc) ==
  IF i <= Len(s) /\ IsDigit(s[i]) THEN DigitRun(s, i + 1, 10 * acc + DigitVal(s[i])) ELSE acc

\* parseFloat of a string: blanks, an optional sign, then the longest digit
\* prefix; NaN when no digit follows.  (The strings of the model carry no
\* fractional digits, so the value is the integer part.)
ParseFloatStr(s) ==
  LET i == SkipWs(s, 1)
      neg == i <= Len(s) /\ s[i] = "-"
      j == IF i <= Len(s) /\ s[i] \in {"-", "+"} THEN i + 1 ELSE i
  IN IF j <= Len(s) /\ IsDigit(s[j])
       THEN Num((IF neg THEN -1 ELSE 1) * DigitRun(s, j, 0))
       ELSE NaN

\* parseFloat(v): the argument is converted to a string first
ParseFloat(v) ==
  CASE v.t = "str" -> ParseFloatStr(v.s)
    [] v.t = "num" -> v
    [] OTHER -> NaN

\* s.replace(/,/g, '')
RECURSIVE StripCommas(_)
StripCommas(s) ==
  IF s = << >> THEN << >>
  ELSE IF Head(s) = "," THEN StripCommas(Tail(s))
  ELSE <<Head(s)>> \o StripCommas(Tail(s))

\* the dates computed from the clock: new Date() and Date.now() + 30 days
Today == Str(<<"TODAY">>)
InThirty == Str(<<"TODAY+30">>)

(***************************************************************************)
(* Method 2: the regular expressions of the heuristic text extractor.      *)
(***************************************************************************)
\* the /i flag, on the spellings of the label words
Lower(c) ==
  CASE c \in {"Hotel", "HOTEL"} -> "hotel"
    [] c = "Property" -> "property"
    [] c = "Resort" -> "resort"
    [] c = "Name" -> "name"
    [] c \in {"City", "CITY"} -> "city"
    [] c = "Location" -> "location"
    [] c = "Category" -> "category"
    [] c = "Star" -> "star"
    [] c = "Rating" -> "rating"
    [] c \in {"Rate", "RATE"} -> "rate"
    [] c = "Price" -> "price"
    [] c = "Cost" -> "cost"
    [] c = "Amount" -> "amount"
    [] c = "GST" -> "gst"
    [] c = "Tax" -> "tax"
    [] c = "Vendor" -> "vendor"
    [] c = "Provider" -> "provider"
    [] c = "Agency" -> "agency"
    [] c = "Travel" -> "travel"
    [] c = "Agent" -> "agent"
    [] c \in {"rs", "RS"} -> "Rs"
    [] c = "inr" -> "INR"
    [] OTHER -> c

HotelWords == {"hotel", "property", "accommodation", "resort"}
CityWords == {"city", "location"}
CategoryWords == {"category", "star", "rating"}
RateWords == {"rate", "price", "cost", "amount"}
GstWords == {"gst", "tax"}
VendorWords == {"vendor", "provider", "agency"}

\* the character classes of the capture groups
InClass(cls, c) ==
  CASE cls = "name" -> IsWordChar(c) \/ IsSpace(c) \/ c = "&"
    [] cls = "city" -> IsWordChar(c) \/ IsSpace(c)
    [] cls = "category" -> IsWordChar(c) \/ IsSpace(c) \/ c = "-"
    [] cls = "rate" -> IsDigit(c) \/ c \in {",", "."}
    [] cls = "digits" -> IsDigit(c)

\* the /i flag: s with its label words in lower case; blanks, digits and
\* punctuation are the same in both
Fold(s) == [i \in DOMAIN s |-> Lower(s[i])]

\* first position >= i of s whose token is outside the class
RECURSIVE RunEnd(_, _, _)
RunEnd(s, i, cls) ==
  IF i <= Len(s) /\ InClass(cls, s[i]) THEN RunEnd(s, i + 1, cls) ELSE i

\* the largest and the smallest member of a set of positions, 0 for no member
MaxOrZero(ps) == IF ps = {} THEN 0 ELSE CHOOSE p \in ps : \A q \in ps : q <= p
MinOrZero(ps) == IF ps = {} THEN 0 ELSE CHOOSE p \in ps : \A q \in ps : p <= q

\* position after "agent" at j, 0 when it is not there
AgentEnd(l, j) == IF j <= Len(l) /\ l[j] = "agent" THEN j + 1 ELSE 0

\* position after the label word that starts at i, 0 when none starts there;
\* twoWord is the alternative travel\s*agent of the vendor pattern
KwEnd(l, i, words, twoWord) ==
  IF l[i] \in words THEN i + 1
  ELSE IF twoWord /\ l[i] = "travel" THEN AgentEnd(l, SkipWs(l, i + 1))
  ELSE 0

\* (?:name)? at position a
NameEnd(l, a, optName) == IF optName /\ a <= Len(l) /\ l[a] = "name" THEN a + 1 ELSE a

\* [:\-]? at position c
SeparatorEnd(l, c) == IF c <= Len(l) /\ l[c] \in {":", "-"} THEN c + 1 ELSE c

\* \s*(?:name)?\s*[:\-]?\s* from position k: the position the greedy match
\* reaches; every position of k..that one is reached by giving tokens back
PrefixEnd(l, k, optName) ==
  SkipWs(l, SeparatorEnd(l, SkipWs(l, NameEnd(l, SkipWs(l, k), optName))))

\* start of the capture group for the label word ending before k: backtracking
\* gives tokens back from the right, so the first start that works is the
\* largest one; 0 when the pattern does not match at this label word
CaptureStart(l, k, optName, cls) ==
  IF k = 0 THEN 0
  ELSE MaxOrZero({p \in k..PrefixEnd(l, k, optName) : p <= Len(l) /\ InClass(cls, l[p])})

\* start of the capture group when the pattern is tried at position i
StartAt(l, i, words, twoWord, optName, cls) ==
  IF i = 0 THEN 0 ELSE CaptureStart(l, KwEnd(l, i, words, twoWord), optName, cls)

\* the capture group [cls]+ from position p
Capture(s, p, cls) == IF p = 0 THEN << >> ELSE SubSeq(s, p, RunEnd(s, p, cls) - 1)

\* content.match(/(?:words)\s*(?:name)?\s*[:\-]?\s*([cls]+)/i): the capture
\* group of the leftmost match, << >> when there is no match
LabelMatch(s, l, words, twoWord, optName, cls) ==
  Capture(s,
          StartAt(l, MinOrZero({i \in 1..Len(l) :
                                  StartAt(l, i, words, twoWord, optName, cls) # 0}),
                  words, twoWord, optName, cls),
          cls)

\* position after (?:Rs\.?|INR)? at position i
CurrencyEnd(l, i) ==
  IF i <= Len(l) /\ l[i] = "Rs"
    THEN (IF i + 1 <= Len(l) /\ l[i + 1] = "." THEN i + 2 ELSE i + 1)
  ELSE IF i <= Len(l) /\ l[i] = "INR" THEN i + 1
  ELSE i

\* start of (\d[\d,\.]*) for the rate word ending before k, 0 when no digit
\* follows the optional separator and currency
RateStart(l, k) ==
  IF k = 0 THEN 0
  ELSE MaxOrZero({p \in k..SkipWs(l, CurrencyEnd(l, PrefixEnd(l, k, FALSE))) :
                    p <= Len(l) /\ IsDigit(l[p])})

RateStartAt(l, i) == IF i = 0 THEN 0 ELSE RateStart(l, KwEnd(l, i, RateWords, FALSE))

\* content.match(rateRegex)[1]
RateMatch(s, l) ==
  Capture(s, RateStartAt(l, MinOrZero({i \in 1..Len(l) : RateStartAt(l, i) # 0})), "rate")

\* \s*% at position h
PercentAt(l, h) == h <= Len(l) /\ l[h] = "%"

\* start of (\d+) in /(?:gst|tax)\s*[:\-]?\s*(\d+)\s*%/ when the separator
\* ends before e, 0 when the digits or the percent sign are missing
GstDigits(l, e) ==
  IF e <= Len(l) /\ IsDigit(l[e]) /\ PercentAt(l, SkipWs(l, RunEnd(l, e, "digits")))
    THEN e ELSE 0

GstStart(l, k) == IF k = 0 THEN 0 ELSE GstDigits(l, PrefixEnd(l, k, FALSE))

GstStartAt(l, i) == IF i = 0 THEN 0 ELSE GstStart(l, KwEnd(l, i, GstWords, FALSE))

\* content.match(gstRegex)[1]
GstMatch(s, l) ==
  Capture(s, GstStartAt(l, MinOrZero({i \in 1..Len(l) : GstStartAt(l, i) # 0})), "digits")

\* baseRateMatch ? parseFloat(baseRateMatch[1].replace(/,/g, '')) : 0
RateValue(m) == IF m = << >> THEN Num(0) ELSE ParseFloatStr(StripCommas(m))

\* gstMatch ? parseFloat(gstMatch[1]) : 0
GstValue(m) == IF m = << >> THEN Num(0) ELSE ParseFloatStr(m)

\* the six values the regex method extracts from the text s, l its folding
RegexMatches(s, l) ==
  [hotelName |-> Str(Trim(LabelMatch(s, l, HotelWords, FALSE, TRUE, "name"))),
   city |-> Str(Trim(LabelMatch(s, l, CityWords, FALSE, FALSE, "city"))),
   category |-> Str(Trim(LabelMatch(s, l, CategoryWords, FALSE, FALSE, "category"))),
   baseRate |-> RateValue(RateMatch(s, l)),
   gstPercent |-> GstValue(GstMatch(s, l)),
   vendor |-> Str(Trim(LabelMatch(s, l, VendorWords, TRUE, FALSE, "name")))]

RegexFields(content) == RegexMatches(content.s, Fold(content.s))

\* baseRate > 0 (a comparison with NaN is false)
Positive(v) == v.t = "num" /\ v.n > 0

\* the gate with the city and the rate both required
RegexGateBothRequired(f) ==
  Truthy(f.hotelName) /\ Truthy(f.city) /\ Positive(f.baseRate)

\* "Check if we extracted enough information to be useful"
RegexGate(f) == Truthy(f.hotelName) /\ (Truthy(f.city) \/ Positive(f.baseRate))

\* the record the regex method builds when the gate passes
RegexTariff(f) ==
  [hotelName |-> f.hotelName, vendor |-> f.vendor, city |-> f.city,
   category |-> f.category, baseRate |-> f.baseRate, gstPercent |-> f.gstPercent,
   serviceFee |-> Num(0), mealPlan |-> EmptyStr, season |-> EmptyStr,
   startDate |-> Today, endDate |-> InThirty, description |-> EmptyStr]

(***************************************************************************)
(* Method 1: the structured-field extractor.                               *)
(***************************************************************************)
\* the value a failed step throws
Throw == [t |-> "throw"]

FieldNames ==
  {"hotelName", "vendor", "city", "category", "baseRate", "gstPercent", "serviceFee",
   "mealPlan", "season", "startDate", "endDate", "description"}

\* doc.fields.<name>?.content ; undefined when the field is absent
Content(doc, name) == doc.fields[name]

\* result.documents && result.documents.length > 0 &&
\* result.documents[0].docType === 'HotelTariff'
HasHotelTariffDoc(res) ==
  Len(res.documents) > 0 /\ res.documents[1].docType = "HotelTariff"

\* the record built from the fields of documents[0]
StructuredRecord(doc) ==
  [hotelName |-> Or(Content(doc, "hotelName"), EmptyStr),
   vendor |-> Or(Content(doc, "vendor"), EmptyStr),
   city |-> Or(Content(doc, "city"), EmptyStr),
   category |-> Or(Content(doc, "category"), EmptyStr),
   baseRate |-> ParseFloat(Or(Content(doc, "baseRate"), Str(<<"0">>))),
   gstPercent |-> ParseFloat(Or(Content(doc, "gstPercent"), Str(<<"0">>))),
   serviceFee |-> ParseFloat(Or(Content(doc, "serviceFee"), Str(<<"0">>))),
   mealPlan |-> Or(Content(doc, "mealPlan"), EmptyStr),
   season |-> Or(Content(doc, "season"), EmptyStr),
   startDate |-> Or(Content(doc, "startDate"), Today),
   endDate |-> Or(Content(doc, "endDate"), Today),
   description |-> Or(Content(doc, "description"), EmptyStr)]

\* the structured method with a content check: it gives up on a document
\* whose hotel name is empty
StructuredTariffContentChecked(doc) ==
  IF ~doc.hasFields \/ ~Truthy(Content(doc, "hotelName")) THEN Throw
  ELSE StructuredRecord(doc)

\* the body of the structured method's try block: reading
\* doc.fields.hotelName throws when the document carries no field map
StructuredTariff(doc) ==
  IF ~doc.hasFields THEN Throw ELSE StructuredRecord(doc)

(***************************************************************************)
(* Method 3: the LLM extractor, in the two versions the repository holds.  *)
(***************************************************************************)
\* /^\d{4}-\d{2}-\d{2}$/.test(v)
DateRegexTest(v) ==
  /\ IsStr(v)
  /\ Len(v.s) = 10
  /\ \A i \in {1, 2, 3, 4, 6, 7, 9, 10} : IsDigit(v.s[i])
  /\ v.s[5] = "-" /\ v.s[8] = "-"

\* the property name of array index i
IndexKey(i) ==
  CASE i = 0 -> <<"0">> [] i = 1 -> <<"1">> [] i = 2 -> <<"2">> [] i = 3 -> <<"3">>
    [] OTHER -> <<"4">>

\* Object.entries(v) of an object or an array: <<key, value>> pairs in order
Entries(v) ==
  IF v.t = "obj" THEN v.e
  ELSE [i \in 1..Len(v.a) |-> <<IndexKey(i - 1), v.a[i]>>]

\* .filter(([_, included]) => included).map(([meal]) => meal).join(', ')
RECURSIVE JoinTruthyKeys(_)
JoinTruthyKeys(e) ==
  IF e = << >> THEN << >>
  ELSE LET rest == JoinTruthyKeys(Tail(e))
           restHas == \E i \in 1..Len(e) : i > 1 /\ Truthy(e[i][2])
       IN IF Truthy(Head(e)[2])
            THEN Head(e)[1] \o (IF restHas THEN <<",", " ">> \o rest ELSE << >>)
            ELSE rest

\* "Process mealPlan to ensure it's a string, even if LLM returns an object"
MealPlanValue(mp) ==
  IF ~Truthy(mp) THEN EmptyStr
  ELSE IF mp.t = "str" THEN mp
  ELSE IF mp.t \in {"obj", "arr"} THEN Str(JoinTruthyKeys(Entries(mp)))
  ELSE EmptyStr

\* d && d.trim() ? d : dflt ; calling trim on a value that is no string throws
DateOrDefault(d, dflt) ==
  IF ~Truthy(d) THEN dflt
  ELSE IF ~IsStr(d) THEN Throw
  ELSE IF Trim(d.s) # << >> THEN d ELSE dflt

\* the normalisation of the parsed reply in the version with meal-plan and
\* date handling; null when a step throws
NormalizeReply(data) ==
  LET startDate == DateOrDefault(data.startDate, Today)
      endDate == DateOrDefault(data.endDate, InThirty)
  IN IF startDate = Throw \/ endDate = Throw THEN Null
     ELSE [hotelName |-> Nullish(data.hotelName, EmptyStr),
           city |-> Nullish(data.city, EmptyStr),
           category |-> Nullish(data.category, EmptyStr),
           vendor |-> Nullish(data.vendor, EmptyStr),
           baseRate |-> Or(ParseFloat(data.baseRate), Num(0)),
           gstPercent |-> Or(ParseFloat(data.gstPercent), Num(0)),
           serviceFee |-> Or(ParseFloat(data.serviceFee), Num(0)),
           mealPlan |-> MealPlanValue(data.mealPlan),
           season |-> Nullish(data.season, EmptyStr),
           startDate |-> IF DateRegexTest(startDate) THEN startDate ELSE Today,
           endDate |-> IF DateRegexTest(endDate) THEN endDate ELSE InThirty,
           description |-> EmptyStr]

\* the same step in apps/portal/src/lib/llm-extractor.ts
NormalizeReplyPortal(data) ==
  [hotelName |-> Nullish(data.hotelName, EmptyStr),
   city |-> Nullish(data.city, EmptyStr),
   category |-> Nullish(data.category, EmptyStr),
   vendor |-> Nullish(data.vendor, EmptyStr),
   baseRate |-> Or(ParseFloat(data.baseRate), Num(0)),
   gstPercent |-> Or(ParseFloat(data.gstPercent), Num(0)),
   serviceFee |-> Or(ParseFloat(data.serviceFee), Num(0)),
   mealPlan |-> Nullish(data.mealPlan, EmptyStr),
   season |-> Nullish(data.season, EmptyStr),
   startDate |-> Nullish(data.startDate, Today),
   endDate |-> Nullish(data.endDate, InThirty),
   description |-> EmptyStr]

\* extractHotelTariffWithLLM: reply.kind is what the completion call did:
\* "error" (it threw), "empty" (no message content), "unparsable" (JSON.parse
\* throws) or "json" (reply.data is the parsed object)
ExtractHotelTariffWithLLM(version, reply) ==
  IF reply.kind # "json" THEN Null
  ELSE IF version = "portal" THEN NormalizeReplyPortal(reply.data)
  ELSE NormalizeReply(reply.data)

(***************************************************************************)
(* The analyzer results and LLM replies the model draws from.              *)
(***************************************************************************)
SampleContent ==
  [hotelName |-> Str(<<"Grand", " ", "Luxury", " ", "Hotel">>),
   vendor |-> Str(<<"Luxury", " ", "Travels", " ", "Ltd">>),
   city |-> Str(<<"Mumbai">>),
   category |-> Str(<<"5", "-", "star">>),
   baseRate |-> Str(<<"1", "2", "5", "0", "0">>),
   gstPercent |-> Str(<<"1", "8">>),
   serviceFee |-> Str(<<"1", "0", "0", "0">>),
   mealPlan |-> Str(<<"Breakfast", " ", "&", " ", "Dinner">>),
   season |-> Str(<<"Peak">>),
   startDate |-> Str(<<"2", "0", "2", "3", "-", "1", "0", "-", "0", "1">>),
   endDate |-> Str(<<"2", "0", "2", "4", "-", "0", "3", "-", "3", "1">>),
   description |-> Str(<<"Sea", " ", "view">>)]

HotelNameContents == {Undef, EmptyStr, SampleContent.hotelName}
BaseRateContents ==
  {Undef, SampleContent.baseRate, Str(<<"N", "/", "A">>), Str(<<"-", "1", "0", "0">>)}

\* the field maps of a structured document: hotelName, baseRate and the two
\* dates vary on their own, the other fields are all present or all absent
FieldMaps ==
  {[n \in FieldNames |->
      CASE n = "hotelName" -> h
        [] n = "baseRate" -> b
        [] n = "startDate" -> (IF sd THEN SampleContent.startDate ELSE Undef)
        [] n = "endDate" -> (IF ed THEN SampleContent.endDate ELSE Undef)
        [] OTHER -> (IF rest THEN SampleContent[n] ELSE Undef)] :
     h \in HotelNameContents, b \in BaseRateContents, sd \in BOOLEAN, ed \in BOOLEAN,
     rest \in BOOLEAN}

NoFields == [n \in FieldNames |-> Undef]

\* result.documents: absent or empty, a document of another type, a
\* HotelTariff document without a field map, a HotelTariff document
DocumentLists ==
  {<< >>,
   <<[docType |-> "Invoice", hasFields |-> TRUE, fields |-> NoFields]>>,
   <<[docType |-> "HotelTariff", hasFields |-> FALSE, fields |-> NoFields]>>}
  \cup {<<[docType |-> "HotelTariff", hasFields |-> TRUE, fields |-> f]>> : f \in FieldMaps}

Segments ==
  {<<"Hotel", ":", " ", "Grand", " ", "Plaza">>,
   <<"City", ":", " ", "Pune">>,
   <<"Rate", ":", " ", "Rs", ".", " ", "5", ",", "0", "0", "0">>,
   <<"GST", " ", "1", "8", "%">>,
   <<"Vendor", " ", "-", " ", "Taj", " ", "Travels">>,
   <<"lorem", " ", "ipsum">>,
   <<"Hotel", " ">>,
   <<"price", " ", "0">>}

\* the texts made of at most n segments, joined by ", "
RECURSIVE TextsOf(_)
TextsOf(n) ==
  IF n = 0 THEN {<< >>}
  ELSE LET shorter == TextsOf(n - 1)
       IN shorter \cup {IF t = << >> THEN g ELSE t \o <<",", " ">> \o g :
                          t \in shorter, g \in Segments}

\* result.content: the empty text, or segments
Contents == {Str(t) : t \in TextsOf(MaxSegs)}

\* a text the regex method accepts
AcceptedText ==
  Str(<<"Hotel", ":", " ", "Grand", " ", "Plaza", ",", " ", "City", ":", " ", "Pune">>)

\* a text the regex method rejects
RejectedText == Str(<<"lorem", " ", "ipsum">>)

\* the analyzer results: every text without a HotelTariff document that has a
\* field map; every document list with the empty text, an accepted text and a
\* rejected text
AnalyzerResults ==
  [documents : {<< >>}, content : Contents]
  \cup [documents : DocumentLists, content : {EmptyStr, AcceptedText, RejectedText}]

MealNames == {<<"Breakfast">>, <<"Lunch">>, <<"Dinner">>}

DistinctKeys(m) == \A i, j \in 1..Len(m) : i # j => m[i][1] # m[j][1]

\* the object maps of meal name to boolean with at most MaxMeals entries, each
\* a sequence of <<key, value>> in the order of the keys
MealMaps ==
  {m \in UNION {[1..n -> MealNames \X {Bool(TRUE), Bool(FALSE)}] : n \in 0..MaxMeals} :
     DistinctKeys(m)}

IsMealMap(v) == v.t = "obj" /\ v.e \in MealMaps

MealPlanReplies ==
  {Undef, EmptyStr, Str(<<"Breakfast", " ", "Only">>), Num(5), Bool(TRUE),
   Arr(<<Str(<<"Breakfast">>), Str(<<"Lunch">>)>>)}
  \cup {Obj(m) : m \in MealMaps}

ValidDate == Str(<<"2", "0", "2", "5", "-", "0", "1", "-", "1", "5">>)
DateReplies ==
  {Undef, EmptyStr, Str(<<" ">>), ValidDate, Str(<<"1", "5", "/", "0", "1", "/", "2", "5">>),
   Num(2025)}

ReplyData(h, c, b, mp, sd, ed) ==
  [hotelName |-> h, city |-> c, category |-> Str(<<"5", "-", "star">>),
   vendor |-> Undef, baseRate |-> b, gstPercent |-> Str(<<"1", "8">>),
   serviceFee |-> Num(0), mealPlan |-> mp, season |-> Null,
   startDate |-> sd, endDate |-> ed]

TajName == Str(<<"Taj", " ", "Palace">>)

\* the parsed objects: the name, city and rate vary together; the meal plan
\* and the dates vary with the other keys fixed
ParsedReplies ==
  {ReplyData(h, c, b, EmptyStr, ValidDate, ValidDate) :
     h \in {Undef, Null, EmptyStr, TajName, Obj(<<<<<<"name">>, TajName>>>>)},
     c \in {EmptyStr, Str(<<"Pune">>)},
     b \in {Undef, Num(0), Num(5000), Num(-5), Str(<<"5", "0", "0", "0">>), Str(<<"abc">>)}}
  \cup {ReplyData(TajName, Str(<<"Pune">>), Num(5000), mp, ValidDate, ValidDate) :
          mp \in MealPlanReplies}
  \cup {ReplyData(TajName, Str(<<"Pune">>), Num(5000), EmptyStr, sd, ed) :
          sd \in DateReplies, ed \in {Undef, ValidDate}}

NoData == ReplyData(Undef, Undef, Undef, Undef, Undef, Undef)

LlmReplies ==
  {[kind |-> k, data |-> NoData] : k \in {"error", "empty", "unparsable"}}
  \cup {[kind |-> "json", data |-> d] : d \in ParsedReplies}

NoReply == [kind |-> "none", data |-> NoData]

(***************************************************************************)
(* The extraction orchestrator, extractHotelTariff, and the method label   *)
(* its caller computes from the returned record.                           *)
(***************************************************************************)
VARIABLES
  result,            \* the analyzer result of the document
  llmVersion,        \* which version of the LLM extractor is deployed
  pc,                \* position of the request
  tariff,            \* the record extractHotelTariff returned, or Null
  acceptedBy,        \* the method whose return statement produced it
  extractionMethod,  \* the label the analyze route computes afterwards
  trace,             \* the methods attempted so far, in order
  llmReply,          \* what the completion call did, NoReply before the call
  llmTariff          \* what extractHotelTariffWithLLM returned, Null before the call

extractVars ==
  <<result, llmVersion, pc, tariff, acceptedBy, extractionMethod, trace, llmReply,
    llmTariff>>

VARIABLES
  properties,        \* hotel.properties rows
  vendors,           \* hotel.vendors rows
  roomTypes,         \* hotel.room_types rows
  ratePlans,         \* hotel.rate_plans rows
  seasons,           \* hotel.seasons rows
  tariffs,           \* hotel.tariffs rows
  tariffAttributes,  \* hotel.tariff_attributes rows
  batch,             \* the records the uploads carry, in order of arrival
  started,           \* number of uploads whose reconciler call has started
  call,              \* the locals of each request handler's reconciler call
  lastDone           \* the reconciler call that returned last

storeVars ==
  <<properties, vendors, roomTypes, ratePlans, seasons, tariffs, tariffAttributes,
    batch, started, call, lastDone>>

VARIABLES
  route,             \* the locals of the analyze endpoint's request handler
  document,          \* the hotel.documents row of the upload
  chat,              \* the chat turn and its best-rate lookup
  metrics,           \* the module-level processing metrics of the analyze route
  pool,              \* the module-level connection pool and the calls of getPool
  legacy             \* the app.Products, app.Vendors and app.Tariffs rows

frontVars == <<route, document, chat, metrics, pool, legacy>>

vars == <<extractVars, storeVars, frontVars>>


Methods == {"structured_model", "regex", "llm", "none"}
LlmVersions == {"normalizing", "portal"}

InitExtract ==
  /\ result \in AnalyzerResults
  /\ llmVersion \in LlmVersions
  /\ pc = "structured"
  /\ tariff = Null
  /\ acceptedBy = "pending"
  /\ extractionMethod = "pending"
  /\ trace = << >>
  /\ llmReply = NoReply
  /\ llmTariff = Null

\* return <record> from extractHotelTariff
Return(record, method) ==
  /\ tariff' = record
  /\ acceptedBy' = method
  /\ pc' = "returned"

\* Method 1: Extract from structured model output
TryStructured ==
  /\ pc = "structured"
  /\ IF HasHotelTariffDoc(result)
       THEN /\ trace' = Append(trace, "structured_model")
            /\ LET t == StructuredTariff(result.documents[1])
               IN IF t # Throw
                    THEN Return(t, "structured_model")
                    ELSE pc' = "regex" /\ UNCHANGED <<tariff, acceptedBy>>
       ELSE pc' = "regex" /\ UNCHANGED <<tariff, acceptedBy, trace>>
  /\ UNCHANGED <<result, llmVersion, extractionMethod, llmReply, llmTariff, storeVars, frontVars>>

\* "Check if we extracted enough information to be useful": return the
\* regex record, or go on to the LLM
AcceptIfUseful(f) ==
  IF RegexGate(f)
    THEN Return(RegexTariff(f), "regex")
    ELSE pc' = "llm" /\ UNCHANGED <<tariff, acceptedBy>>

\* Method 2: Extract using regex patterns
TryRegex ==
  /\ pc = "regex"
  /\ IF Truthy(result.content)
       THEN /\ trace' = Append(trace, "regex")
            /\ AcceptIfUseful(RegexFields(result.content))
       ELSE pc' = "llm" /\ UNCHANGED <<tariff, acceptedBy, trace>>
  /\ UNCHANGED <<result, llmVersion, extractionMethod, llmReply, llmTariff, storeVars, frontVars>>

\* Method 3 with a retry: a failed LLM extraction is attempted once more
TryLLMWithRetry ==
  /\ pc = "llm"
  /\ IF Truthy(result.content)
       THEN \E reply \in LlmReplies :
              /\ llmReply' = reply
              /\ trace' = Append(trace, "llm")
              /\ llmTariff' = ExtractHotelTariffWithLLM(llmVersion, reply)
              /\ IF llmTariff' # Null /\ Truthy(llmTariff'.hotelName)
                   THEN Return(llmTariff', "llm")
                   ELSE IF Len(trace) > 0 /\ trace[Len(trace)] = "llm"
                     THEN Return(Null, "none")
                     ELSE pc' = "llm" /\ UNCHANGED <<tariff, acceptedBy>>
       ELSE Return(Null, "none") /\ UNCHANGED <<trace, llmReply, llmTariff>>
  /\ UNCHANGED <<result, llmVersion, extractionMethod, storeVars, frontVars>>

\* Method 3 without the test of the name: any record the LLM extractor
\* returns is accepted
TryLLMAcceptingUnnamed ==
  /\ pc = "llm"
  /\ IF Truthy(result.content)
       THEN \E reply \in LlmReplies :
              /\ llmReply' = reply
              /\ trace' = Append(trace, "llm")
              /\ llmTariff' = ExtractHotelTariffWithLLM(llmVersion, reply)
              /\ IF llmTariff' # Null
                   THEN Return(llmTariff', "llm")
                   ELSE Return(Null, "none")
       ELSE Return(Null, "none") /\ UNCHANGED <<trace, llmReply, llmTariff>>
  /\ UNCHANGED <<result, llmVersion, extractionMethod, storeVars, frontVars>>

\* Method 3: Try LLM extraction as a fallback; the completion call answers
\* with any reply
TryLLM ==
  /\ pc = "llm"
  /\ IF Truthy(result.content)
       THEN \E reply \in LlmReplies :
              /\ llmReply' = reply
              /\ trace' = Append(trace, "llm")
              /\ llmTariff' = ExtractHotelTariffWithLLM(llmVersion, reply)
              /\ IF llmTariff' # Null /\ Truthy(llmTariff'.hotelName)
                   THEN Return(llmTariff', "llm")
                   ELSE Return(Null, "none")
       ELSE Return(Null, "none") /\ UNCHANGED <<trace, llmReply, llmTariff>>
  /\ UNCHANGED <<result, llmVersion, extractionMethod, storeVars, frontVars>>

\* the label computed without the guard on a null record
MethodLabelUnguarded(res, t) ==
  IF HasHotelTariffDoc(res) THEN "structured_model"
  ELSE IF t = Null THEN "none"
  ELSE IF Truthy(t.hotelName) /\ (Truthy(t.city) \/ Positive(t.baseRate)) THEN "regex"
  ELSE "llm"

\* "Determine the extraction method used", in the analyze route
MethodLabel(res, t) ==
  IF t = Null THEN "none"
  ELSE IF HasHotelTariffDoc(res) THEN "structured_model"
  ELSE IF Truthy(t.hotelName) /\ (Truthy(t.city) \/ Positive(t.baseRate)) THEN "regex"
  ELSE "llm"

DetermineMethod ==
  /\ pc = "returned"
  /\ extractionMethod' = MethodLabel(result, tariff)
  /\ pc' = "labelled"
  /\ UNCHANGED <<result, llmVersion, tariff, acceptedBy, trace, llmReply, llmTariff, storeVars, frontVars>>

NextExtract == TryStructured \/ TryRegex \/ TryLLM \/ DetermineMethod

(***************************************************************************)
(* The tariff reconciler, saveHotelTariffToNewSchema, over the hotel.*      *)
(* tables.  Every awaited query is one step; uploads run side by side.     *)
(***************************************************************************)
\* number of uploads of a run, each calling the reconciler once
MaxUploads == 2

\* number of uploads of a run that submits one record again and again
MaxResaves == 4

\* the request handlers running at the same time; a handler takes the next
\* upload when it has returned from the previous one
Handlers == {"h1", "h2"}

StoreRecord(h, mp, rate) ==
  [hotelName |-> h, vendor |-> EmptyStr, city |-> Str(<<"Pune">>),
   category |-> Str(<<"5", "-", "star">>), baseRate |-> Num(rate),
   gstPercent |-> Num(18), serviceFee |-> Num(0), mealPlan |-> mp,
   season |-> EmptyStr, startDate |-> Today, endDate |-> InThirty,
   description |-> EmptyStr]

\* the canonical records handed to the reconciler: two with the same key and
\* different rates, one with another meal plan
SaveRecords ==
  {StoreRecord(TajName, EmptyStr, 5000), StoreRecord(TajName, EmptyStr, 6000),
   StoreRecord(TajName, Str(<<"Breakfast">>), 5000)}

\* a call of the reconciler: the record, and whether the caller passes the
\* optional documentId
Upload(r, d) == [tariff |-> r, withDocument |-> d]

\* the calls of a run: any record with a document id, and one call without
Uploads ==
  {Upload(r, TRUE) : r \in SaveRecords}
  \cup {Upload(StoreRecord(TajName, EmptyStr, 5000), FALSE)}

\* the runs of uploads: any calls, and one record submitted MaxResaves times
Batches == [1..MaxUploads -> Uploads]
ResaveBatch == [i \in 1..MaxResaves |-> Upload(StoreRecord(TajName, EmptyStr, 5000), TRUE)]

\* what is kept of a call that returned
NoSummary ==
  [rec |-> Null, upload |-> 0, ok |-> FALSE, tariffId |-> 0, alone |-> FALSE,
   message |-> << >>, error |-> ""]

IdleCall ==
  [pc |-> "idle", rec |-> Null, upload |-> 0, documentId |-> 0, propertyId |-> 0,
   vendorId |-> 0,
   roomTypeId |-> 0, ratePlanId |-> 0, seasonId |-> 0, tariffId |-> 0, alone |-> TRUE,
   after |-> 0]

InitStore ==
  /\ properties = {} /\ vendors = {} /\ roomTypes = {} /\ ratePlans = {}
  /\ seasons = {} /\ tariffs = {} /\ tariffAttributes = {}
  /\ started = 0
  /\ call = [h \in Handlers |-> IdleCall]
  /\ lastDone = NoSummary

Active(h) == call[h].pc # "idle"

\* call[u] with the fields of the record r replaced
Step(u, r) == call' = [call EXCEPT ![u] = [f \in DOMAIN IdleCall |->
                                            IF f \in DOMAIN r THEN r[f] ELSE call[u][f]]]

\* the upload whose call returned last, when that call failed with the record
\* r; 0 otherwise
FailedBefore(r) ==
  IF lastDone.rec = r /\ ~lastDone.ok THEN lastDone.upload ELSE 0

\* saveHotelTariffToNewSchema(tariff, documentId) is called for the next upload,
\* whose document row has the upload's number as id (documentId 0 stands for a
\* call without the argument); of two idle handlers the first takes it
StartSave(u) ==
  /\ ~Active(u)
  /\ u = "h1" \/ Active("h1")
  /\ started < Len(batch)
  /\ started' = started + 1
  /\ call' = [h \in Handlers |->
                IF h = u
                  THEN [IdleCall EXCEPT !.pc = "selProperty",
                                        !.rec = batch[started + 1].tariff,
                                        !.upload = started + 1,
                                        !.documentId =
                                          IF batch[started + 1].withDocument
                                            THEN started + 1 ELSE 0,
                                        !.alone = \A w \in Handlers : ~Active(w),
                                        !.after = FailedBefore(batch[started + 1].tariff)]
                  ELSE IF Active(h) THEN [call[h] EXCEPT !.alone = FALSE] ELSE call[h]]
  /\ UNCHANGED <<extractVars, frontVars, properties, vendors, roomTypes, ratePlans, seasons, tariffs,
                 tariffAttributes, batch, lastDone>>

\* a get-or-create that inserts without looking at the rows that match
SelectDimNeverFinding(u, matching, idField, foundPc, insertPc) ==
  /\ Step(u, [pc |-> insertPc])
  /\ UNCHANGED <<extractVars, frontVars, properties, vendors, roomTypes, ratePlans, seasons, tariffs,
                 tariffAttributes, lastDone,
                 batch, started>>

\* the SELECT of a get-or-create: recordset[0] of the matching rows (any of
\* them, the query has no ORDER BY), or the INSERT step when none matches
SelectDim(u, matching, idField, foundPc, insertPc) ==
  /\ IF matching = {}
       THEN Step(u, [pc |-> insertPc])
       ELSE \E row \in matching : Step(u, (idField :> row.id) @@ [pc |-> foundPc])
  /\ UNCHANGED <<extractVars, frontVars, properties, vendors, roomTypes, ratePlans, seasons, tariffs,
                 tariffAttributes, lastDone,
                 batch, started>>

\* IDENTITY(1,1): an id no other row of the table has. An upload inserts at
\* most one row into a table, so its own number is such an id.
NewId(u) == call[u].upload

\* the INSERT of a get-or-create and SELECT SCOPE_IDENTITY()
InsertDim(u, idField, nextPc) ==
  /\ Step(u, (idField :> NewId(u))
               @@ [pc |-> nextPc])
  /\ UNCHANGED <<extractVars, frontVars, tariffs, tariffAttributes, lastDone,
                 batch, started>>

\* getOrCreateProperty: SELECT by (property_name, city)
SelectProperty(u) ==
  /\ call[u].pc = "selProperty"
  /\ SelectDim(u, {p \in properties : p.name = call[u].rec.hotelName
                                       /\ p.city = call[u].rec.city},
               "propertyId", "selVendor", "insProperty")

InsertProperty(u) ==
  /\ call[u].pc = "insProperty"
  /\ properties' = properties \cup
       {[id |-> NewId(u), name |-> call[u].rec.hotelName,
         city |-> call[u].rec.city, category |-> call[u].rec.category]}
  /\ InsertDim(u, "propertyId", "selVendor")
  /\ UNCHANGED <<vendors, roomTypes, ratePlans, seasons>>

\* tariff.vendor || 'Unknown Vendor'
VendorName(r) == Or(r.vendor, Str(<<"Unknown", " ", "Vendor">>))

\* getOrCreateVendor: SELECT by vendor_name
SelectVendor(u) ==
  /\ call[u].pc = "selVendor"
  /\ SelectDim(u, {v \in vendors : v.name = VendorName(call[u].rec)},
               "vendorId", "selRoomType", "insVendor")

InsertVendor(u) ==
  /\ call[u].pc = "insVendor"
  /\ vendors' = vendors \cup {[id |-> NewId(u), name |-> VendorName(call[u].rec)]}
  /\ InsertDim(u, "vendorId", "selRoomType")
  /\ UNCHANGED <<properties, roomTypes, ratePlans, seasons>>

\* roomName: string = 'Standard Room'
StandardRoom == Str(<<"Standard", " ", "Room">>)

\* getOrCreateRoomType: SELECT by (property_id, room_name)
SelectRoomType(u) ==
  /\ call[u].pc = "selRoomType"
  /\ SelectDim(u, {r \in roomTypes : r.propertyId = call[u].propertyId
                                      /\ r.roomName = StandardRoom},
               "roomTypeId", "selRatePlan", "insRoomType")

InsertRoomType(u) ==
  /\ call[u].pc = "insRoomType"
  /\ roomTypes' = roomTypes \cup
       {[id |-> NewId(u), propertyId |-> call[u].propertyId,
         roomName |-> StandardRoom]}
  /\ InsertDim(u, "roomTypeId", "selRatePlan")
  /\ UNCHANGED <<properties, vendors, ratePlans, seasons>>

\* the meal plan as the record gives it
MealLabelAsGiven(r) == r.mealPlan

\* mealPlan || 'Room Only'
MealLabel(r) == Or(r.mealPlan, Str(<<"Room", " ", "Only">>))

\* getOrCreateRatePlan: SELECT by (property_id, meal_plan)
SelectRatePlan(u) ==
  /\ call[u].pc = "selRatePlan"
  /\ SelectDim(u, {r \in ratePlans : r.propertyId = call[u].propertyId
                                      /\ r.mealPlan = MealLabel(call[u].rec)},
               "ratePlanId", "selSeason", "insRatePlan")

InsertRatePlan(u) ==
  /\ call[u].pc = "insRatePlan"
  /\ ratePlans' = ratePlans \cup
       {[id |-> NewId(u), propertyId |-> call[u].propertyId,
         planName |-> Str(MealLabel(call[u].rec).s \o <<" ", "Plan">>),
         mealPlan |-> MealLabel(call[u].rec)]}
  /\ InsertDim(u, "ratePlanId", "selSeason")
  /\ UNCHANGED <<properties, vendors, roomTypes, seasons>>

\* seasonName || 'Regular'
SeasonName(r) == Or(r.season, Str(<<"Regular">>))

\* getOrCreateSeason: SELECT by (property_id, season_name, start_date, end_date)
SelectSeason(u) ==
  /\ call[u].pc = "selSeason"
  /\ SelectDim(u, {s \in seasons : /\ s.propertyId = call[u].propertyId
                                    /\ s.seasonName = SeasonName(call[u].rec)
                                    /\ s.startDate = call[u].rec.startDate
                                    /\ s.endDate = call[u].rec.endDate},
               "seasonId", "selTariff", "insSeason")

InsertSeason(u) ==
  /\ call[u].pc = "insSeason"
  /\ seasons' = seasons \cup
       {[id |-> NewId(u), propertyId |-> call[u].propertyId,
         seasonName |-> SeasonName(call[u].rec), startDate |-> call[u].rec.startDate,
         endDate |-> call[u].rec.endDate]}
  /\ InsertDim(u, "seasonId", "selTariff")
  /\ UNCHANGED <<properties, vendors, roomTypes, ratePlans>>

\* the composite key of a tariff row, or of a call's resolved dimensions
KeyOf(x) == <<x.propertyId, x.vendorId, x.roomTypeId, x.ratePlanId, x.seasonId>>

\* "Check if tariff already exists"
SelectTariff(u) ==
  /\ call[u].pc = "selTariff"
  /\ LET existingTariff == {t \in tariffs : KeyOf(t) = KeyOf(call[u])}
     IN IF existingTariff = {}
          THEN Step(u, [pc |-> "insTariff"])
          ELSE \E row \in existingTariff : Step(u, [pc |-> "updTariff", tariffId |-> row.id])
  /\ UNCHANGED <<extractVars, frontVars, properties, vendors, roomTypes, ratePlans, seasons, tariffs,
                 tariffAttributes, lastDone,
                 batch, started>>

\* an update that writes the row anew: DELETE, then INSERT with the dimensions
\* the call resolved
UpdateTariffByReplacing(u) ==
  /\ call[u].pc = "updTariff"
  /\ tariffs' = {t \in tariffs : t.id # call[u].tariffId} \cup
       {[id |-> NewId(u), propertyId |-> call[u].propertyId,
         vendorId |-> call[u].vendorId, roomTypeId |-> call[u].roomTypeId,
         ratePlanId |-> call[u].ratePlanId, seasonId |-> call[u].seasonId,
         baseRate |-> call[u].rec.baseRate, taxPercent |-> call[u].rec.gstPercent,
         serviceFee |-> call[u].rec.serviceFee]}
  /\ Step(u, [pc |-> IF call[u].documentId # 0 THEN "attrUpsert" ELSE "return"])
  /\ UNCHANGED <<extractVars, frontVars, properties, vendors, roomTypes, ratePlans, seasons, tariffAttributes,
                 lastDone,
                 batch, started>>

\* "Update existing tariff"
UpdateTariff(u) ==
  /\ call[u].pc = "updTariff"
  /\ tariffs' = {IF t.id = call[u].tariffId
                   THEN [t EXCEPT !.baseRate = call[u].rec.baseRate,
                                  !.taxPercent = call[u].rec.gstPercent,
                                  !.serviceFee = call[u].rec.serviceFee]
                   ELSE t : t \in tariffs}
  /\ Step(u, [pc |-> IF call[u].documentId # 0 THEN "attrUpsert" ELSE "return"])
  /\ UNCHANGED <<extractVars, frontVars, properties, vendors, roomTypes, ratePlans, seasons, tariffAttributes,
                 lastDone,
                 batch, started>>

\* "Insert new tariff"
InsertTariff(u) ==
  /\ call[u].pc = "insTariff"
  /\ tariffs' = tariffs \cup
       {[id |-> NewId(u), propertyId |-> call[u].propertyId,
         vendorId |-> call[u].vendorId, roomTypeId |-> call[u].roomTypeId,
         ratePlanId |-> call[u].ratePlanId, seasonId |-> call[u].seasonId,
         baseRate |-> call[u].rec.baseRate, taxPercent |-> call[u].rec.gstPercent,
         serviceFee |-> call[u].rec.serviceFee]}
  /\ Step(u, [pc |-> IF call[u].documentId # 0 THEN "attrInsert" ELSE "return",
              tariffId |-> NewId(u)])
  /\ UNCHANGED <<extractVars, frontVars, properties, vendors, roomTypes, ratePlans, seasons, tariffAttributes,
                 lastDone,
                 batch, started>>

\* the messages of the errors a database call ends with when it fails
ErrorMessages == {"ConnectionError", "RequestError"}

\* inserting a second row with the key of a primary key
PrimaryKeyViolation == "Violation of PRIMARY KEY constraint"

SavedMessage == "Hotel tariff information saved successfully to new schema"
UpdatedMessage == "Hotel tariff information updated successfully in new schema"
FailedPrefix == "Failed to save hotel tariff to new schema: "

\* return { success: true, message, tariffId }; tariffId 0 stands for a result
\* without that property, error "" for a result without an error
SuccessResult(text, id) ==
  [ok |-> TRUE, message |-> <<text>>, tariffId |-> id, error |-> ""]

\* a failure result whose message does not carry the cause
FailureResultWithoutCause(e) ==
  [ok |-> FALSE, message |-> <<FailedPrefix>>, tariffId |-> 0, error |-> e]

\* the catch block: return { success: false, message: `Failed ...: ${error.message}`,
\* error }
FailureResult(e) ==
  [ok |-> FALSE, message |-> <<FailedPrefix, e>>, tariffId |-> 0, error |-> e]

\* the return of a result object; the call's locals are gone
Finish(u, res) ==
  /\ call' = [call EXCEPT ![u] = IdleCall]
  /\ lastDone' = [rec |-> call[u].rec, upload |-> call[u].upload, ok |-> res.ok,
                  tariffId |-> res.tariffId,
                  alone |-> call[u].alone, message |-> res.message, error |-> res.error]

\* IF EXISTS ... UPDATE hotel.tariff_attributes ... ELSE INSERT, after an update
UpsertAttributes(u) ==
  /\ call[u].pc = "attrUpsert"
  /\ tariffAttributes' =
       {a \in tariffAttributes : a.tariffId # call[u].tariffId}
       \cup {[tariffId |-> call[u].tariffId, documentId |-> call[u].documentId]}
  /\ Step(u, [pc |-> "return"])
  /\ UNCHANGED <<extractVars, frontVars, properties, vendors, roomTypes, ratePlans, seasons, tariffs,
                 lastDone,
                 batch, started>>

\* INSERT INTO hotel.tariff_attributes after an insert; tariff_id is the
\* primary key, so the statement throws when the row exists
InsertAttributes(u) ==
  /\ call[u].pc = "attrInsert"
  /\ IF \E a \in tariffAttributes : a.tariffId = call[u].tariffId
       THEN /\ Finish(u, FailureResult(PrimaryKeyViolation))
            /\ UNCHANGED tariffAttributes
       ELSE /\ tariffAttributes' = tariffAttributes \cup
                 {[tariffId |-> call[u].tariffId, documentId |-> call[u].documentId]}
            /\ Step(u, [pc |-> "return"])
            /\ UNCHANGED lastDone
  /\ UNCHANGED <<extractVars, frontVars, properties, vendors, roomTypes, ratePlans, seasons, tariffs,
                 batch, started>>

\* return { success: true, message, tariffId }: "saved" from the insert branch,
\* where the tariff id is the one this call's INSERT produced, "updated" from
\* the update branch
ReturnSuccess(u) ==
  /\ call[u].pc = "return"
  /\ Finish(u, SuccessResult(IF call[u].tariffId = NewId(u) THEN SavedMessage
                                                            ELSE UpdatedMessage,
                             call[u].tariffId))
  /\ UNCHANGED <<extractVars, frontVars, properties, vendors, roomTypes, ratePlans, seasons, tariffs,
                 tariffAttributes,
                 batch, started>>

\* the awaited call the handler is at (getPool and the query of the step)
\* rejects: the statement has no effect, the error reaches the catch block of
\* saveHotelTariffToNewSchema, through the rethrow of the get-or-create
\* function when it is one of theirs
QueryFails(u) ==
  /\ Active(u)
  /\ call[u].pc # "return"
  /\ \E e \in ErrorMessages : Finish(u, FailureResult(e))
  /\ UNCHANGED <<extractVars, frontVars, properties, vendors, roomTypes, ratePlans, seasons, tariffs,
                 tariffAttributes,
                 batch, started>>

\* a step of the call of handler u after its start
Reconcile(u) ==
    \/ SelectProperty(u) \/ InsertProperty(u)
    \/ SelectVendor(u) \/ InsertVendor(u)
    \/ SelectRoomType(u) \/ InsertRoomType(u)
    \/ SelectRatePlan(u) \/ InsertRatePlan(u)
    \/ SelectSeason(u) \/ InsertSeason(u)
    \/ SelectTariff(u) \/ UpdateTariff(u) \/ InsertTariff(u)
    \/ UpsertAttributes(u) \/ InsertAttributes(u)
    \/ ReturnSuccess(u)

NextStore ==
  \E u \in Handlers :
    \/ StartSave(u)
    \/ SelectProperty(u) \/ InsertProperty(u)
    \/ SelectVendor(u) \/ InsertVendor(u)
    \/ SelectRoomType(u) \/ InsertRoomType(u)
    \/ SelectRatePlan(u) \/ InsertRatePlan(u)
    \/ SelectSeason(u) \/ InsertSeason(u)
    \/ SelectTariff(u) \/ UpdateTariff(u) \/ InsertTariff(u)
    \/ UpsertAttributes(u) \/ InsertAttributes(u)
    \/ ReturnSuccess(u)


\* no request at the analyze endpoint, no chat turn
RouteIdle ==
  [version |-> "multiLayer", pc |-> "idle", documentId |-> 0, dbAvailable |-> FALSE,
   analyses |-> 0, legacyCalls |-> 0, newSchemaCalls |-> 0, statusErrors |-> 0,
   legacyResult |-> Null, dbResult |-> Null, newSchemaResult |-> Null,
   response |-> "none"]
NoDocument == [status |-> "none", written |-> << >>, asked |-> {}]
ChatIdle == [pc |-> "idle"]

\* the fraction n / d, and the equality of two fractions
Rat(n, d) == [n |-> n, d |-> d]
RatEq(a, b) == a.n * b.d = b.n * a.d

\* let totalDocumentsProcessed = 0, extractionMethodCounts, successRate = 0;
\* requests is the number of uploads the process has received
NoMetrics ==
  [totalDocumentsProcessed |-> 0,
   extractionMethodCounts |-> [m \in {"structured_model", "regex", "llm", "none"} |-> 0],
   successRate |-> Rat(0, 1), requests |-> 1]

\* let pool = null, and no call of getPool in flight
NoPool ==
  [closable |-> FALSE, stored |-> 0, created |-> 0, closes |-> 0, closing |-> FALSE,
   calls |-> 0,
   caller |-> [h \in {"h1", "h2"} |-> [pc |-> "idle", got |-> 0]]]

\* the legacy tables, empty; written is the number of records saved to them
NoLegacy == [products |-> {}, vendors |-> {}, tariffs |-> {}, written |-> 0]

FrontIdle ==
  /\ route = RouteIdle /\ document = NoDocument /\ chat = ChatIdle
  /\ metrics = NoMetrics /\ pool = NoPool /\ legacy = NoLegacy

\* one document through the extraction orchestrator
Init == InitExtract /\ InitStore /\ batch = << >> /\ FrontIdle
Next == NextExtract
Spec == Init /\ [][Next]_vars

\* uploads writing the normalized store
ExtractIdle ==
  /\ result = [documents |-> << >>, content |-> EmptyStr]
  /\ llmVersion = "normalizing"
  /\ pc = "structured"
  /\ tariff = Null
  /\ acceptedBy = "pending"
  /\ extractionMethod = "pending"
  /\ trace = << >>
  /\ llmReply = NoReply
  /\ llmTariff = Null

InitSave == ExtractIdle /\ FrontIdle /\ InitStore /\ batch \in Batches
NextSave == NextStore \/ \E u \in Handlers : QueryFails(u)
SpecStore == InitSave /\ [][NextSave]_vars

\* number of uploads of a run that submits one record while calls fail
MaxRetries == 3

\* one record submitted MaxRetries times, database calls failing at any step
RetryBatch == [i \in 1..MaxRetries |-> Upload(StoreRecord(TajName, EmptyStr, 5000), TRUE)]
InitRetry == ExtractIdle /\ FrontIdle /\ InitStore /\ batch = RetryBatch
SpecRetry == InitRetry /\ [][NextSave]_vars

\* uploads submitting one record again and again, no database call failing
InitResave == ExtractIdle /\ FrontIdle /\ InitStore /\ batch = ResaveBatch
SpecResave == InitResave /\ [][NextStore]_vars

(***************************************************************************)
(* The legacy save, saveHotelTariff, over app.Products, app.Vendors and    *)
(* app.Tariffs, and uploads that write every record to both schemas one    *)
(* after the other.  All rows belong to the one tenant of the process.     *)
(***************************************************************************)
\* number of records written to both schemas
MaxDual == 2

RoomOnly == Str(<<"Room", " ", "Only">>)

\* the records: a base record, and others that differ from it in the rate,
\* in the meal plan or in the start date
DualRecords ==
  {StoreRecord(TajName, mp, rate) : mp \in {EmptyStr, RoomOnly, Str(<<"Breakfast">>)},
                                    rate \in {5000, 6000}}
  \cup {[StoreRecord(TajName, EmptyStr, 5000) EXCEPT !.startDate = ValidDate]}

DualBatches == [1..MaxDual -> {Upload(r, TRUE) : r \in DualRecords}]

\* getProductId: the id of recordset[0] of the rows with the name, city and
\* category, or the id of the row it inserts; n is the next IDENTITY value
ProductIds(r, n) ==
  IF \E p \in legacy.products :
       p.name = r.hotelName /\ p.city = r.city /\ p.category = r.category
    THEN {p.id : p \in {q \in legacy.products :
                          q.name = r.hotelName /\ q.city = r.city
                          /\ q.category = r.category}}
    ELSE {n}

\* getVendorId(tariff.vendor)
VendorIds(r, n) ==
  IF \E v \in legacy.vendors : v.name = r.vendor
    THEN {v.id : v \in {w \in legacy.vendors : w.name = r.vendor}}
    ELSE {n}

\* "Check if tariff already exists for this product, vendor, and season"
ExistingTariff(r, pid, vid) ==
  {t \in legacy.tariffs : t.productId = pid /\ t.vendorId = vid /\ t.season = r.season}

\* the columns the UPDATE sets and the INSERT fills
LegacyRow(id, pid, vid, r) ==
  [id |-> id, productId |-> pid, vendorId |-> vid, season |-> r.season,
   baseRate |-> r.baseRate, gstPercent |-> r.gstPercent, serviceFee |-> r.serviceFee,
   mealPlan |-> r.mealPlan, startDate |-> r.startDate, endDate |-> r.endDate]

\* app.Tariffs after the UPDATE of the row tid, or after the INSERT
TariffsAfter(r, pid, vid, n) ==
  IF ExistingTariff(r, pid, vid) = {}
    THEN {legacy.tariffs \cup {LegacyRow(n, pid, vid, r)}}
    ELSE {{IF t.id = tid THEN LegacyRow(tid, pid, vid, r) ELSE t : t \in legacy.tariffs} :
            tid \in {x.id : x \in ExistingTariff(r, pid, vid)}}

\* saveHotelTariff(tariff) for the next record, all its queries succeeding
WriteLegacy ==
  /\ \A u \in Handlers : ~Active(u)
  /\ legacy.written = started
  /\ legacy.written < Len(batch)
  /\ \E pid \in ProductIds(batch[started + 1].tariff, started + 1),
        vid \in VendorIds(batch[started + 1].tariff, started + 1) :
       \E rows \in TariffsAfter(batch[started + 1].tariff, pid, vid, started + 1) :
         legacy' =
           [products |-> legacy.products \cup
              {[id |-> pid, name |-> batch[started + 1].tariff.hotelName,
                city |-> batch[started + 1].tariff.city,
                category |-> batch[started + 1].tariff.category]},
            vendors |-> legacy.vendors \cup
              {[id |-> vid, name |-> batch[started + 1].tariff.vendor]},
            tariffs |-> rows,
            written |-> started + 1]
  /\ UNCHANGED <<extractVars, storeVars, route, document, chat, metrics, pool>>

\* saveHotelTariffToNewSchema is called after saveHotelTariff has returned
StartDual == legacy.written = started + 1 /\ StartSave("h1")

NextDual == WriteLegacy \/ StartDual \/ Reconcile("h1")

InitDual == ExtractIdle /\ FrontIdle /\ InitStore /\ batch \in DualBatches
SpecDual == InitDual /\ [][NextDual]_vars

(***************************************************************************)
(* The analyze endpoint, POST, in its two versions: the dual-save route    *)
(* with the synchronous extractor and the multi-layer route that calls the *)
(* extraction orchestrator.  Every awaited call is one step; the request   *)
(* has passed the checks of the uploaded file.                             *)
(***************************************************************************)
RouteVersions == {"dualSave", "multiLayer"}

MultiLayer == route.version = "multiLayer"

\* documentId = Date.now(): a number that is the id of no document row
MockDocumentId == 2

\* the result objects of the saves and of the route
SaveResult(ok, text) == [success |-> ok, message |-> text, extractedOnly |-> FALSE]
ExtractedOnly(ok, text) == [success |-> ok, message |-> text, extractedOnly |-> TRUE]

\* dbResult?.success
Success(r) == r # Null /\ r.success

\* a result of saveHotelTariff: the message in pieces, and whether the result
\* carries the error that was caught
LegacyResult(ok, text, err) ==
  [success |-> ok, message |-> text, extractedOnly |-> FALSE, error |-> err]

\* the messages of the errors saveHotelTariff catches
SqlErrors ==
  {<<"ConnectionError">>, <<"Invalid object name">>, <<"Cannot find the ", "table", " app.Tariffs">>}

SchemaError == LegacyResult(FALSE, <<"Database ", "schema", " error: ", "RequestError">>, TRUE)

\* what saveHotelTariff returns: saved, a schema error, no product or vendor
\* record, a failure with the message of the error it caught
LegacyResults ==
  {LegacyResult(TRUE, <<"Hotel tariff information saved successfully">>, FALSE),
   SchemaError,
   LegacyResult(FALSE, <<"Failed to create or find product record">>, FALSE)}
  \cup {LegacyResult(FALSE, <<"Failed to save hotel tariff: ">> \o e, TRUE) : e \in SqlErrors}

\* message.includes(word), the message cut so that the word is a piece
Includes(text, word) == \E i \in 1..Len(text) : text[i] = word

\* "If there was an error but it's related to schema creation, try again"
RetryWanted(r) ==
  ~r.success /\ r.error /\ (Includes(r.message, "schema") \/ Includes(r.message, "table"))

\* what saveHotelTariffToNewSchema returns
NewSchemaResults ==
  {SaveResult(TRUE, SavedMessage), SaveResult(FALSE, FailedPrefix)}

\* the result of analyzeDocument: no document, a HotelTariff document without
\* a field map, the sample document; no text, an accepted and a rejected text
RouteResults ==
  [documents : {<< >>,
                <<[docType |-> "HotelTariff", hasFields |-> FALSE, fields |-> NoFields]>>,
                <<[docType |-> "HotelTariff", hasFields |-> TRUE, fields |-> SampleContent]>>},
   content : {EmptyStr, AcceptedText, RejectedText}]

\* extractHotelTariff of the dual-save route: the structured document, else
\* the regex values of the text without a gate, else null; null when it threw
ExtractHotelTariffSync(res) ==
  IF HasHotelTariffDoc(res)
    THEN IF StructuredTariff(res.documents[1]) = Throw
           THEN Null ELSE StructuredTariff(res.documents[1])
    ELSE IF Truthy(res.content) THEN RegexTariff(RegexFields(res.content)) ELSE Null

\* route with the fields of the record r replaced
RouteStep(r) == route' = [f \in DOMAIN route |-> IF f \in DOMAIN r THEN r[f] ELSE route[f]]

\* the UPDATE of updateDocumentStatus went through; asked holds the values
\* the route has called updateDocumentStatus with
WriteStatus(status) ==
  document' = [status |-> status, written |-> Append(document.written, status),
               asked |-> document.asked \cup {status}]

\* updateDocumentStatus threw
StatusNotWritten(status) ==
  document' = [document EXCEPT !.asked = document.asked \cup {status}]

\* updateDocumentStatus(documentId, status) inside try/catch: the row is
\* written, or the call throws and the error is logged
TryWriteStatus(status, r) ==
  \/ WriteStatus(status) /\ RouteStep(r)
  \/ /\ StatusNotWritten(status)
     /\ RouteStep(r @@ [statusErrors |-> route.statusErrors + 1])

\* documentId = await saveDocumentReference(blobUrl), or the catch block
CreateDocument ==
  /\ route.pc = "create"
  /\ \/ /\ document' = [status |-> "pending", written |-> <<"pending">>, asked |-> {}]
        /\ RouteStep([pc |-> "markProcessing", documentId |-> 1])
     \/ /\ UNCHANGED document
        /\ RouteStep([pc |-> "analyze",
                      documentId |-> IF MultiLayer THEN MockDocumentId ELSE 0])
  /\ UNCHANGED <<extractVars, storeVars, chat, metrics, pool, legacy>>

\* await updateDocumentStatus(documentId, 'processing'); dbAvailable = true, or
\* the catch block, which in the multi-layer route replaces the document id
MarkProcessing ==
  /\ route.pc = "markProcessing"
  /\ \/ /\ WriteStatus("processing")
        /\ RouteStep([pc |-> "analyze", dbAvailable |-> MultiLayer])
     \/ /\ StatusNotWritten("processing")
        /\ RouteStep([pc |-> "analyze", statusErrors |-> route.statusErrors + 1,
                      documentId |-> IF MultiLayer THEN MockDocumentId
                                                   ELSE route.documentId])
  /\ UNCHANGED <<extractVars, storeVars, chat, metrics, pool, legacy>>

\* const result = await analyzeDocument(...), then the call of the extractor:
\* the orchestrator starts, or the synchronous extractor returns; when the
\* analysis throws the outer catch answers with status 500
AnalyzeDocument ==
  /\ route.pc = "analyze"
  /\ \/ \E res \in RouteResults :
          /\ result' = res
          /\ IF MultiLayer
               THEN pc' = "structured" /\ UNCHANGED tariff
               ELSE pc' = "returned" /\ tariff' = ExtractHotelTariffSync(res)
          /\ RouteStep([pc |-> "extract", analyses |-> route.analyses + 1])
     \/ /\ RouteStep([pc |-> "done", analyses |-> route.analyses + 1,
                      response |-> "error500"])
        /\ UNCHANGED <<result, pc, tariff>>
  /\ UNCHANGED <<llmVersion, acceptedBy, extractionMethod, trace, llmReply, llmTariff,
                 document, storeVars, chat, metrics, pool, legacy>>

\* the database of the request can be used: the multi-layer route's flag
DbUsable == MultiLayer => route.dbAvailable

\* where the route goes after the first status update, with the result it
\* sets when a tariff was extracted and the database is not available
AfterOutcome ==
  IF tariff # Null /\ DbUsable THEN [pc |-> "legacy"]
  ELSE IF tariff # Null
    THEN [pc |-> "settle",
          dbResult |-> ExtractedOnly(FALSE, "Database connection not available")]
  ELSE [pc |-> "settle"]

\* "If document ID exists and we have extracted text, update the document"
RecordOutcome ==
  /\ route.pc = "extract"
  /\ pc = "returned"
  /\ IF route.documentId # 0 /\ Truthy(result.content) /\ DbUsable
       THEN TryWriteStatus(IF MultiLayer /\ tariff = Null THEN "failed" ELSE "completed",
                           AfterOutcome)
       ELSE UNCHANGED document /\ RouteStep(AfterOutcome)
  /\ UNCHANGED <<extractVars, storeVars, chat, metrics, pool, legacy>>

\* the catch block around saveHotelTariff
LegacyCaught ==
  SaveResult(FALSE, IF MultiLayer THEN "Original database connection failed."
                                  ELSE "Failed to save to original database")

\* a route in which a failed legacy save ends the persistence
LegacyReturnedBlocking(r) ==
  IF r.success
    THEN RouteStep([pc |-> "newSchema", dbResult |-> r, legacyResult |-> r,
                    legacyCalls |-> route.legacyCalls + 1])
    ELSE RouteStep([pc |-> "settle", dbResult |-> r, legacyResult |-> r,
                    legacyCalls |-> route.legacyCalls + 1])

\* a route that calls saveHotelTariff again after any failure
LegacyReturnedRetryingAll(r) ==
  IF MultiLayer /\ route.pc = "legacy" /\ ~r.success
    THEN RouteStep([pc |-> "legacyRetry", dbResult |-> r,
                    legacyCalls |-> route.legacyCalls + 1])
    ELSE RouteStep([pc |-> "newSchema", dbResult |-> r, legacyResult |-> r,
                    legacyCalls |-> route.legacyCalls + 1])

\* what the route does with the outcome r of saveHotelTariff: the multi-layer
\* route calls again after a schema error, otherwise r is the legacy result
LegacyReturned(r) ==
  IF MultiLayer /\ route.pc = "legacy" /\ RetryWanted(r)
    THEN RouteStep([pc |-> "legacyRetry", dbResult |-> r,
                    legacyCalls |-> route.legacyCalls + 1])
    ELSE RouteStep([pc |-> "newSchema", dbResult |-> r, legacyResult |-> r,
                    legacyCalls |-> route.legacyCalls + 1])

\* dbResult = await saveHotelTariff(tariff), first call and retry
SaveLegacy ==
  /\ route.pc \in {"legacy", "legacyRetry"}
  /\ \/ \E r \in LegacyResults : LegacyReturned(r)
     \/ RouteStep([pc |-> "newSchema", dbResult |-> LegacyCaught,
                   legacyResult |-> LegacyCaught,
                   legacyCalls |-> route.legacyCalls + 1])
  /\ UNCHANGED <<extractVars, storeVars, document, chat, metrics, pool, legacy>>

\* newSchemaResult = await saveHotelTariffToNewSchema(tariff, documentId)
SaveNewSchema ==
  /\ route.pc = "newSchema"
  /\ \E r \in NewSchemaResults :
       RouteStep([pc |-> "settle", newSchemaResult |-> r,
                  newSchemaCalls |-> route.newSchemaCalls + 1])
  /\ UNCHANGED <<extractVars, storeVars, document, chat, metrics, pool, legacy>>

NotSavedMessage ==
  "Hotel tariff information was successfully extracted from the document. However, it could not be saved to either database."

\* a response that reports the failed saves as a failure
ExtractedNotSavedAsFailure == ExtractedOnly(FALSE, NotSavedMessage)

\* dbResult of the response when both saves failed
ExtractedNotSaved == ExtractedOnly(TRUE, NotSavedMessage)

\* processingDetails.dbSaveSuccess of the response
DbSaveSuccess == Success(route.dbResult) \/ Success(route.newSchemaResult)

\* the response with status 200
Answer(r) == r @@ [pc |-> "done", response |-> "ok200"]

\* metrics that count every document, also the ones without a tariff
UpdateMetricsCountingAll(t, label) ==
  [metrics EXCEPT
     !.totalDocumentsProcessed = @ + 1,
     !.extractionMethodCounts = [@ EXCEPT ![label] = @ + 1],
     !.successRate =
       Rat(100 * (metrics.extractionMethodCounts["structured_model"]
                  + metrics.extractionMethodCounts["regex"]
                  + metrics.extractionMethodCounts["llm"]
                  + (IF label = "none" THEN 0 ELSE 1)),
           metrics.totalDocumentsProcessed + 1)]

\* "Update metrics", inside if (tariff): the counters and
\* successRate = ((structured_model + regex + llm) / totalDocumentsProcessed) * 100
UpdateMetrics(t, label) ==
  IF t = Null THEN metrics
  ELSE [metrics EXCEPT
          !.totalDocumentsProcessed = @ + 1,
          !.extractionMethodCounts = [@ EXCEPT ![label] = @ + 1],
          !.successRate =
            Rat(100 * (metrics.extractionMethodCounts["structured_model"]
                       + metrics.extractionMethodCounts["regex"]
                       + metrics.extractionMethodCounts["llm"]
                       + (IF label = "none" THEN 0 ELSE 1)),
                metrics.totalDocumentsProcessed + 1)]

\* "If both database saves failed but we have tariff data", else the status
\* update to failed when no tariff was extracted; then the response
Settle ==
  /\ route.pc = "settle"
  /\ IF tariff # Null
       THEN /\ UNCHANGED document
            /\ IF ~Success(route.dbResult) /\ ~Success(route.newSchemaResult)
                 THEN RouteStep(Answer([dbResult |-> ExtractedNotSaved]))
                 ELSE RouteStep(Answer([dbResult |-> route.dbResult]))
       ELSE IF route.documentId # 0 /\ DbUsable
         THEN TryWriteStatus("failed", Answer([dbResult |-> route.dbResult]))
         ELSE UNCHANGED document /\ RouteStep(Answer([dbResult |-> route.dbResult]))
  /\ extractionMethod' = IF MultiLayer THEN MethodLabel(result, tariff) ELSE extractionMethod
  /\ metrics' = IF MultiLayer THEN UpdateMetrics(tariff, MethodLabel(result, tariff))
                             ELSE metrics
  /\ UNCHANGED <<result, llmVersion, pc, tariff, acceptedBy, trace, llmReply, llmTariff,
                 storeVars, chat, pool, legacy>>

NextRoute ==
  \/ CreateDocument \/ MarkProcessing \/ AnalyzeDocument
  \/ TryStructured \/ TryRegex \/ TryLLM
  \/ RecordOutcome \/ SaveLegacy \/ SaveNewSchema \/ Settle

\* one upload through the analyze endpoint
InitRoute ==
  /\ \E v \in RouteVersions : route = [RouteIdle EXCEPT !.version = v, !.pc = "create"]
  /\ document = NoDocument
  /\ chat = ChatIdle
  /\ metrics = NoMetrics /\ pool = NoPool /\ legacy = NoLegacy
  /\ result = [documents |-> << >>, content |-> EmptyStr]
  /\ llmVersion = "portal"
  /\ pc = "unstarted"
  /\ tariff = Null
  /\ acceptedBy = "pending"
  /\ extractionMethod = "pending"
  /\ trace = << >>
  /\ llmReply = NoReply
  /\ llmTariff = Null
  /\ InitStore /\ batch = << >>

SpecRoute == InitRoute /\ [][NextRoute]_vars

\* number of uploads one process receives, one after the other
MaxRequests == 3

\* the next upload arrives after the response to the previous one
NextUpload ==
  /\ route.pc = "done"
  /\ metrics.requests < MaxRequests
  /\ metrics' = [metrics EXCEPT !.requests = @ + 1]
  /\ route' = [RouteIdle EXCEPT !.version = route.version, !.pc = "create"]
  /\ document' = NoDocument
  /\ result' = [documents |-> << >>, content |-> EmptyStr]
  /\ pc' = "unstarted"
  /\ tariff' = Null
  /\ acceptedBy' = "pending"
  /\ extractionMethod' = "pending"
  /\ trace' = << >>
  /\ llmReply' = NoReply
  /\ llmTariff' = Null
  /\ UNCHANGED <<llmVersion, storeVars, chat, pool, legacy>>

NextMetrics == NextRoute \/ NextUpload

\* the uploads of one process of the multi-layer route
InitMetrics == InitRoute /\ MultiLayer

SpecMetrics == InitMetrics /\ [][NextMetrics]_vars

(***************************************************************************)
(* The chat turn and the best-rate lookup, in two versions: the tool       *)
(* getBestRate.run called through callMap by the chat route, and the        *)
(* function getBestRate inside the chat route.  Amounts are exact           *)
(* fractions; a date YYYY-MM-DD is the number of its day.                   *)
(***************************************************************************)
\* number of days a stay can begin or end on
MaxDays == 3

ToolVersions == {"callMap", "inline"}

Inline == chat.version = "inline"

\* the rows of dbo.Tariffs
TariffRow(c, b, g, f) == [City |-> c, BaseRate |-> b, GstPercent |-> g, ServiceFee |-> f]
Mumbai == <<"Mum", "bai">>
RateTables ==
  {{}, {TariffRow(Mumbai, 10000, 18, 1000)},
   {TariffRow(Mumbai, 10000, 18, 1000), TariffRow(Mumbai, 8000, 12, 500)}}

\* the arguments of the function call the model asks for
PaxValues == {Undef, Num(0), Num(0 - 2), Num(1), Num(2)}
ToolArgs ==
  [city : {<<"Mum">>, Mumbai, <<"Pune">>}, category : {"5-star"},
   start : 1..MaxDays, end : 1..MaxDays, pax : PaxValues]

\* (new Date(end) - new Date(start)) / 86_400_000, a whole number for two dates
Nights(a) == a.end - a.start

\* City LIKE '%' + city + '%'
Like(s, sub) == \E i \in 0..(Len(s) - Len(sub)) : SubSeq(s, i + 1, i + Len(sub)) = sub

\* SELECT TOP 1 ... WHERE City LIKE @city ORDER BY BaseRate: the rows that can
\* come first
TopRows(table, city) ==
  {t \in table : /\ Like(t.City, city)
                 /\ \A o \in table : Like(o.City, city) => t.BaseRate <= o.BaseRate}

\* t.BaseRate * nights * (1 + t.GstPercent / 100) + t.ServiceFee
ToolTotal(t, nights) ==
  Rat(t.BaseRate * nights * (100 + t.GstPercent) + 100 * t.ServiceFee, 100)

\* what getBestRate.run returns for the row t
ToolFound(a, t) ==
  [found |-> Undef, error |-> Undef,
   hotel |-> [city |-> a.city, category |-> a.category, nights |-> Nights(a),
              totalPrice |-> ToolTotal(t, Nights(a)),
              perPerson |-> Rat(ToolTotal(t, Nights(a)).n,
                                ToolTotal(t, Nights(a)).d * Or(a.pax, Num(1)).n)]]

\* baseTotal + gstAmount + hotel.ServiceFee
InlineTotal(t, nights) ==
  Rat(100 * (t.BaseRate * nights) + (t.BaseRate * nights) * t.GstPercent
        + 100 * t.ServiceFee, 100)

\* const { pax = 1 } = args
PaxOrOne(a) == IF a.pax = Undef THEN 1 ELSE a.pax.n

\* what the route's getBestRate returns for the row t
InlineFound(a, t) ==
  [found |-> Bool(TRUE), error |-> Undef,
   hotel |-> [city |-> t.City, category |-> "Budget", nights |-> Nights(a),
              totalPrice |-> InlineTotal(t, Nights(a)),
              perPerson |-> IF PaxOrOne(a) > 0
                              THEN Rat(InlineTotal(t, Nights(a)).n,
                                       InlineTotal(t, Nights(a)).d * PaxOrOne(a))
                              ELSE InlineTotal(t, Nights(a))]]

\* the payloads without a hotel: no row, and the catch blocks of the route
NotFound == [found |-> IF Inline THEN Bool(FALSE) ELSE Undef, error |-> Undef, hotel |-> Undef]
ErrorPayload(e) == [found |-> Bool(FALSE), error |-> Str(<<e>>), hotel |-> Undef]

\* the messages of the errors a database call of the lookup ends with
LookupErrors == {"Login failed", "timeout", "RequestError"}

ChatStep(r) == chat' = [f \in DOMAIN chat |-> IF f \in DOMAIN r THEN r[f] ELSE chat[f]]

\* the outer catch of POST: the request is answered with status 500
Answer500 == [pc |-> "done", response |-> "error500"]

\* the tool's result is pushed onto the conversation; next is the final call
Pushed(payload) == [pc |-> "summarise", rateResult |-> payload]

\* an awaited call of the lookup rejects with e: getBestRate of the route
\* catches and returns a payload, getBestRate.run lets it reach POST
LookupThrows(e) ==
  IF Inline THEN ChatStep(Pushed(ErrorPayload(e)) @@ [lookupFailed |-> TRUE])
            ELSE ChatStep(Answer500 @@ [lookupFailed |-> TRUE])

\* the first completion: an answer without a call, a function call with
\* arguments that parse, one whose arguments do not, or the call throws
FirstCompletion ==
  /\ chat.pc = "ask"
  /\ \/ ChatStep([pc |-> "done", response |-> "ok200"])
     \/ \E a \in ToolArgs : ChatStep([pc |-> "connect", args |-> a])
     \/ IF Inline THEN ChatStep(Pushed(ErrorPayload("Function call error")))
                  ELSE ChatStep(Answer500)
     \/ ChatStep(Answer500)
  /\ UNCHANGED <<extractVars, storeVars, route, document, metrics, pool, legacy>>

\* pool = await getDbPool() / await db()
ConnectPool ==
  /\ chat.pc = "connect"
  /\ \/ ChatStep([pc |-> "inspect"])
     \/ \E e \in LookupErrors : LookupThrows(e)
  /\ UNCHANGED <<extractVars, storeVars, route, document, metrics, pool, legacy>>

\* the queries before the lookup: the route inspects the database and sets
\* the tenant context inside try/catch, the tool reads the column names
InspectDatabase ==
  /\ chat.pc = "inspect"
  /\ \/ ChatStep([pc |-> "query"])
     \/ \E e \in LookupErrors :
          IF Inline THEN ChatStep([pc |-> "query"]) ELSE LookupThrows(e)
  /\ UNCHANGED <<extractVars, storeVars, route, document, metrics, pool, legacy>>

\* the lookup query and the computation of the result
RunQuery ==
  /\ chat.pc = "query"
  /\ \/ IF TopRows(chat.table, chat.args.city) = {}
          THEN ChatStep(Pushed(NotFound))
          ELSE \E t \in TopRows(chat.table, chat.args.city) :
                 ChatStep(Pushed(IF Inline THEN InlineFound(chat.args, t)
                                           ELSE ToolFound(chat.args, t))
                          @@ [row |-> t])
     \/ \E e \in LookupErrors : LookupThrows(e)
  /\ UNCHANGED <<extractVars, storeVars, route, document, metrics, pool, legacy>>

\* the final completion over the conversation with the tool's result
FinalCompletion ==
  /\ chat.pc = "summarise"
  /\ \/ ChatStep([pc |-> "done", response |-> "ok200", summarised |-> TRUE])
     \/ ChatStep(Answer500 @@ [summarised |-> TRUE])
  /\ UNCHANGED <<extractVars, storeVars, route, document, metrics, pool, legacy>>

NextChat ==
  FirstCompletion \/ ConnectPool \/ InspectDatabase \/ RunQuery \/ FinalCompletion

\* one chat turn
InitChat ==
  /\ \E v \in ToolVersions, tb \in RateTables :
       chat = [version |-> v, table |-> tb, pc |-> "ask", args |-> Null, row |-> Null,
               rateResult |-> Null, lookupFailed |-> FALSE, summarised |-> FALSE,
               response |-> "none"]
  /\ route = RouteIdle /\ document = NoDocument
  /\ metrics = NoMetrics /\ pool = NoPool /\ legacy = NoLegacy
  /\ ExtractIdle /\ InitStore /\ batch = << >>

SpecChat == InitChat /\ [][NextChat]_vars

(***************************************************************************)
(* The lazily created connection pool: getPool of hotel-db.ts and db.ts,   *)
(* and db with closePool.  stored is the module variable pool, 0 for null   *)
(* and otherwise the number of the pool; got is what a caller's last call   *)
(* returned, 0 when it threw or has not returned.                           *)
(***************************************************************************)
\* number of calls of getPool in a run, and of closePool
MaxCalls == 4
MaxCloses == 1

PoolStep(r) == pool' = [f \in DOMAIN pool |-> IF f \in DOMAIN r THEN r[f] ELSE pool[f]]

\* the callers with u at pc p holding the pool g
Caller(u, p, g) == [pool.caller EXCEPT ![u] = [pc |-> p, got |-> g]]

\* getPool(): if (!pool) the caller goes on to connect, else return pool
GetPool(u) ==
  /\ pool.caller[u].pc = "idle"
  /\ pool.calls < MaxCalls
  /\ IF pool.stored # 0
       THEN PoolStep([calls |-> pool.calls + 1, caller |-> Caller(u, "idle", pool.stored)])
       ELSE PoolStep([calls |-> pool.calls + 1, caller |-> Caller(u, "connecting", 0)])
  /\ UNCHANGED <<extractVars, storeVars, route, document, chat, metrics, legacy>>

\* pool = await new sql.ConnectionPool(config).connect(); return pool
Connected(u) ==
  /\ pool.caller[u].pc = "connecting"
  /\ PoolStep([created |-> pool.created + 1, stored |-> pool.created + 1,
               caller |-> Caller(u, "idle", pool.created + 1)])
  /\ UNCHANGED <<extractVars, storeVars, route, document, chat, metrics, legacy>>

\* the connect rejects: the catch block logs and rethrows
ConnectFails(u) ==
  /\ pool.caller[u].pc = "connecting"
  /\ PoolStep([caller |-> Caller(u, "idle", 0)])
  /\ UNCHANGED <<extractVars, storeVars, route, document, chat, metrics, legacy>>

\* closePool: if (pool) await pool.close()
ClosePoolStart ==
  /\ pool.closable /\ ~pool.closing
  /\ pool.stored # 0
  /\ pool.closes < MaxCloses
  /\ PoolStep([closing |-> TRUE])
  /\ UNCHANGED <<extractVars, storeVars, route, document, chat, metrics, legacy>>

\* closePool: pool = null
ClosePoolEnd ==
  /\ pool.closing
  /\ PoolStep([closing |-> FALSE, stored |-> 0, closes |-> pool.closes + 1])
  /\ UNCHANGED <<extractVars, storeVars, route, document, chat, metrics, legacy>>

NextPool ==
  \/ \E u \in Handlers : GetPool(u) \/ Connected(u) \/ ConnectFails(u)
  \/ ClosePoolStart \/ ClosePoolEnd

\* one process, with or without closePool
InitPool ==
  /\ \E b \in BOOLEAN : pool = [NoPool EXCEPT !.closable = b]
  /\ route = RouteIdle /\ document = NoDocument /\ chat = ChatIdle
  /\ metrics = NoMetrics /\ legacy = NoLegacy
  /\ ExtractIdle /\ InitStore /\ batch = << >>

SpecPool == InitPool /\ [][NextPool]_vars

(***************************************************************************)
(* Properties of the extraction orchestrator.                              *)
(***************************************************************************)
Rank(m) == CASE m = "structured_model" -> 1 [] m = "regex" -> 2 [] m = "llm" -> 3

Returned == pc \in {"returned", "labelled"}

\* C1: the methods are attempted in the order structured model, regex, LLM,
\* each at most once, and once extractHotelTariff has returned (with a record
\* or with null) no method is attempted any more.
C1_SequentialAtMostOnce ==
  [][/\ \A i, j \in 1..Len(trace') : i < j => Rank(trace'[i]) < Rank(trace'[j])
     /\ acceptedBy # "pending" => trace' = trace
     /\ acceptedBy' \in {"structured_model", "regex", "llm"}
          => trace' # << >> /\ trace'[Len(trace')] = acceptedBy']_vars

\* C1 witness: all three methods were attempted, one after the other
C1_AllThreeTried ==
  Returned /\ trace = <<"structured_model", "regex", "llm">> /\ acceptedBy = "llm"

\* C2: with text content and no accepted structured record, the regex return
\* statement fires exactly when the extracted hotel name is non-empty and the
\* city is non-empty or the base rate is above zero; otherwise the regex
\* values are dropped and the LLM is called.
C2_RegexGateIff ==
  (Returned /\ Truthy(result.content) /\ acceptedBy # "structured_model") =>
    LET f == RegexFields(result.content)
        passes == /\ f.hotelName.s # << >>
                  /\ (f.city.s # << >> \/ (f.baseRate.t = "num" /\ f.baseRate.n > 0))
    IN /\ acceptedBy = "regex" <=> passes
       /\ passes => tariff.hotelName = f.hotelName /\ llmReply = NoReply
       /\ ~passes => trace[Len(trace)] = "llm" /\ llmReply # NoReply
                       /\ tariff \in {Null, llmTariff}

\* C2 witness: a hotel name was found but neither city nor rate, and the LLM
\* was asked instead
C2_GateFailedLlmAsked ==
  /\ Returned /\ Truthy(result.content)
  /\ RegexFields(result.content).hotelName.s # << >>
  /\ trace = <<"regex", "llm">>

\* C3: the outcome is a record with one of the four methods, and the record is
\* null exactly when the method is none, also after a method threw.
C3_OutcomeShape ==
  /\ Returned => /\ acceptedBy \in Methods
                 /\ tariff = Null <=> acceptedBy = "none"
  /\ pc = "labelled" => /\ extractionMethod \in Methods
                        /\ tariff = Null <=> extractionMethod = "none"

\* C3 witness: the structured method threw, the others failed, outcome none
C3_ThrewThenNone ==
  /\ pc = "labelled" /\ HasHotelTariffDoc(result)
  /\ trace = <<"structured_model", "regex", "llm">>
  /\ tariff = Null /\ extractionMethod = "none"

TariffFields ==
  {"hotelName", "vendor", "city", "category", "baseRate", "gstPercent", "serviceFee",
   "mealPlan", "season", "startDate", "endDate", "description"}

\* C6: every field of a returned record is a string or a number, and mealPlan
\* is a string.
C6_ScalarFields ==
  (Returned /\ tariff # Null) =>
    /\ \A n \in TariffFields : tariff[n].t \in {"str", "num", "nan"}
    /\ tariff.mealPlan.t = "str"

\* C7: baseRate and serviceFee of a returned record are numbers >= 0.
C7_NonNegativeRates ==
  (Returned /\ tariff # Null) =>
    /\ tariff.baseRate.t = "num" /\ tariff.baseRate.n >= 0
    /\ tariff.serviceFee.t = "num" /\ tariff.serviceFee.n >= 0

\* C8 as stated: a first document of type HotelTariff always gives a
\* structured_model record, and neither regex nor LLM is attempted.
C8_StructuredWheneverDocType ==
  (Returned /\ HasHotelTariffDoc(result)) =>
    /\ acceptedBy = "structured_model" /\ tariff # Null
    /\ trace = <<"structured_model">>

\* C8 amended: a first document of type HotelTariff that carries a field map
\* gives a structured_model record whatever the fields hold, and neither
\* regex nor LLM is attempted.
C8_StructuredWheneverFieldMap ==
  (Returned /\ HasHotelTariffDoc(result) /\ result.documents[1].hasFields) =>
    /\ acceptedBy = "structured_model" /\ tariff # Null
    /\ trace = <<"structured_model">> /\ llmReply = NoReply

\* C8 witness: every field is missing and the text would pass the regex gate
C8_EmptyFieldMapAccepted ==
  /\ Returned /\ HasHotelTariffDoc(result)
  /\ result.documents[1].hasFields /\ result.documents[1].fields = NoFields
  /\ result.content = AcceptedText
  /\ acceptedBy = "structured_model"

NumericFields == {"baseRate", "gstPercent", "serviceFee"}

\* the value the structured record is said to hold for field n
C9_Expected(doc, n) ==
  LET c == doc.fields[n]
  IN IF c = Undef
       THEN (CASE n \in NumericFields -> Num(0)
               [] n = "startDate" -> Today
               [] n = "endDate" -> InThirty
               [] OTHER -> EmptyStr)
       ELSE IF n \in NumericFields THEN ParseFloatStr(c.s) ELSE c

\* C9: the structured record holds each field's content, and for an absent
\* field the empty string, 0, today (start date) or today plus 30 days (end
\* date).
C9_StructuredDefaults ==
  (Returned /\ acceptedBy = "structured_model") =>
    \A n \in TariffFields : tariff[n] = C9_Expected(result.documents[1], n)

\* the true-valued keys of a meal map, in order
RECURSIVE C10_TrueKeys(_)
C10_TrueKeys(e) ==
  IF e = << >> THEN << >>
  ELSE IF Head(e)[2] = Bool(TRUE) THEN <<Head(e)[1]>> \o C10_TrueKeys(Tail(e))
  ELSE C10_TrueKeys(Tail(e))

\* keys joined by ", "
RECURSIVE C10_Join(_)
C10_Join(ks) ==
  IF ks = << >> THEN << >>
  ELSE IF Len(ks) = 1 THEN Head(ks)
  ELSE Head(ks) \o <<",", " ">> \o C10_Join(Tail(ks))

\* C10: when the parsed reply's mealPlan is a map of meal name to boolean, the
\* LLM extractor's record has mealPlan equal to the true-valued keys joined by
\* commas in key order.
C10_MealPlanFlattened ==
  (llmReply.kind = "json" /\ IsMealMap(llmReply.data.mealPlan)) =>
    /\ llmTariff # Null
    /\ llmTariff.mealPlan = Str(C10_Join(C10_TrueKeys(llmReply.data.mealPlan.e)))


(***************************************************************************)
(* Properties of the reconciler.                                           *)
(***************************************************************************)
\* the tariff rows that carry the composite key k
RowsOfKey(k) == {t \in tariffs : KeyOf(t) = k}

\* C4: in every reachable state hotel.tariffs holds at most one row per
\* composite key (property, vendor, room type, rate plan, season), whatever
\* calls ran and however their queries interleaved.
C4_OneRowPerKey == \A a, b \in tariffs : KeyOf(a) = KeyOf(b) => a.id = b.id

\* a call that is about to return success, ran with no other call in flight,
\* and follows a successful call of the same kind with the identical record
SecondOfTwoSequential(h) ==
  /\ call[h].pc = "return" /\ call[h].alone
  /\ lastDone.ok /\ lastDone.alone /\ lastDone.rec = call[h].rec

\* C5: the second of two sequential calls with the identical record leaves
\* exactly one tariff row for the key, has updated and not inserted, returns
\* the tariff id of the first call, and has added no dimension row.
C5_SecondCallUpdatesInPlace ==
  \A h \in Handlers :
    SecondOfTwoSequential(h) =>
      /\ Cardinality(RowsOfKey(KeyOf(call[h]))) = 1
      /\ call[h].tariffId # NewId(h)
      /\ call[h].tariffId = lastDone.tariffId
      /\ \A f \in {"propertyId", "vendorId", "roomTypeId", "ratePlanId", "seasonId"} :
           call[h][f] # NewId(h)

\* a reconciler call of handler u ends in this step
CallEnds(u) == call[u].pc # "idle" /\ call'[u].pc = "idle"

\* C11: saveHotelTariffToNewSchema never throws to its caller. Every call ends
\* by handing its caller a result object: when an awaited database call
\* failed (connecting, a dimension get-or-create, the tariff lookup, insert or
\* update, the attributes write) the result has success false, no tariff id
\* and a message that contains the message of the error; otherwise it has
\* success true and the tariff id.
C11_NeverThrows ==
  [][\A u \in Handlers :
       CallEnds(u) =>
         /\ lastDone'.rec = call[u].rec
         /\ IF call[u].pc = "return"
              THEN /\ lastDone'.ok
                   /\ lastDone'.tariffId = call[u].tariffId
                   /\ lastDone'.tariffId # 0
              ELSE /\ ~lastDone'.ok
                   /\ lastDone'.tariffId = 0
                   /\ lastDone'.error \in ErrorMessages \cup {PrimaryKeyViolation}
                   /\ \E i \in DOMAIN lastDone'.message :
                        lastDone'.message[i] = lastDone'.error]_vars

\* a call whose tariff INSERT went through came back with the failure result
\* of the attributes write
C11_AttributesWriteFailed ==
  /\ lastDone.rec # Null
  /\ ~lastDone.ok
  /\ lastDone.error = PrimaryKeyViolation
  /\ tariffs # {}

\* the UPDATE of hotel.tariffs of handler u's call is executed in this step
UpdateDone(u) == call[u].pc = "updTariff" /\ call'[u].pc \in {"attrUpsert", "return"}

\* C12: the update of an existing tariff row changes only the base rate, tax
\* percent and service fee of that row (the updated timestamp is not a column
\* of the model): the row keeps its id and its property, vendor, room type,
\* rate plan and season ids, every other tariff row is unchanged and no row
\* is added or removed.
C12_UpdateChangesRatesOnly ==
  [][\A u \in Handlers :
       UpdateDone(u) =>
         /\ \A t \in tariffs :
              IF t.id = call[u].tariffId
                THEN [t EXCEPT !.baseRate = call[u].rec.baseRate,
                               !.taxPercent = call[u].rec.gstPercent,
                               !.serviceFee = call[u].rec.serviceFee] \in tariffs'
                ELSE t \in tariffs'
         /\ Cardinality(tariffs') = Cardinality(tariffs)
         /\ {t.id : t \in tariffs'} = {t.id : t \in tariffs}]_vars

\* an update has just written a rate into a row that another upload inserted
\* with a different rate
C12_RateOverwritten ==
  \E u \in Handlers :
    /\ call[u].pc = "attrUpsert"
    /\ \E t \in tariffs :
         /\ t.id = call[u].tariffId
         /\ t.baseRate = call[u].rec.baseRate
         /\ batch[t.id].tariff.baseRate # t.baseRate

\* the attributes statement of handler u's call is executed in this step
AttributesWritten(u) ==
  /\ call[u].pc \in {"attrUpsert", "attrInsert"}
  /\ call'[u].pc # call[u].pc
  /\ ~(call'[u].pc = "idle" /\ lastDone'.error \in ErrorMessages)

\* C13: hotel.tariff_attributes holds at most one row per tariff id; a call
\* that supplies a document id and gets to its attributes statement leaves the
\* row of its tariff id with that document id, created when it was absent and
\* replaced when it was present; and no step of a call without a document id
\* changes the table.
C13_AttributesUpsert ==
  /\ [](\A a, b \in tariffAttributes : a.tariffId = b.tariffId => a = b)
  /\ [][/\ \A u \in Handlers :
            AttributesWritten(u) =>
              [tariffId |-> call[u].tariffId, documentId |-> call[u].documentId]
                \in tariffAttributes'
        /\ \A u \in Handlers :
            (Active(u) /\ call[u].documentId = 0 /\ call'[u] # call[u]) =>
              tariffAttributes' = tariffAttributes]_vars

(***************************************************************************)
(* Properties of the analyze endpoint.                                     *)
(***************************************************************************)
TerminalStatuses == {"completed", "failed"}

\* C14: the processing_status values written to a document row follow
\* pending, then processing, then completed or failed: the first value is
\* pending, the second is processing and is written before the analysis,
\* every later value is completed or failed and is written after the analysis
\* started, and a value written after completed or failed is that same value.
C14_StatusOrder ==
  \A i \in DOMAIN document.written :
    /\ i = 1 => document.written[i] = "pending"
    /\ i = 2 => document.written[i] = "processing"
    /\ i >= 3 => /\ document.written[i] \in TerminalStatuses
                 /\ route.analyses > 0
    /\ i >= 4 => document.written[i] = document.written[i - 1]

\* the multi-layer route has answered a request whose extraction ended with
\* a null record and whose document row exists
NoneForCreatedRow ==
  /\ MultiLayer
  /\ route.response = "ok200"
  /\ tariff = Null
  /\ document.status # "none"

\* C15: when the orchestrator ended with a null record for a document whose
\* row was created, the route has called the status update with failed for
\* that row, has called neither save, and has run the analysis and each
\* extraction method at most once.
C15_NoneMarkedFailed ==
  NoneForCreatedRow =>
    /\ "failed" \in document.asked
    /\ route.legacyCalls = 0 /\ route.newSchemaCalls = 0
    /\ route.analyses = 1
    /\ \A i, j \in DOMAIN trace : trace[i] = trace[j] => i = j

\* the route has answered a request for which a tariff was extracted
AnsweredWithTariff == route.pc = "done" /\ tariff # Null

\* C16: when the database is available and a tariff was extracted, the
\* new-schema save is called once whatever saveHotelTariff returned or
\* threw; a failed new-schema save leaves dbResult equal to the result of the
\* legacy save when that save succeeded, and dbResult is the legacy result
\* whenever the new-schema save succeeded.
C16_NewSchemaAlwaysTried ==
  (AnsweredWithTariff /\ DbUsable) =>
    /\ route.legacyCalls >= 1
    /\ route.newSchemaCalls = 1
    /\ Success(route.legacyResult) \/ Success(route.newSchemaResult) =>
         route.dbResult = route.legacyResult

\* the statement of C16 as written: a failed new-schema save never changes
\* the result reported for the legacy save
C16_LegacyResultKept ==
  (AnsweredWithTariff /\ DbUsable) =>
    /\ route.newSchemaCalls = 1
    /\ ~Success(route.newSchemaResult) => route.dbResult = route.legacyResult

\* saveHotelTariff threw, the new-schema save was called and succeeded
C16_LegacyThrewNewSchemaSaved ==
  /\ AnsweredWithTariff
  /\ route.legacyResult = LegacyCaught
  /\ route.newSchemaCalls = 1
  /\ Success(route.newSchemaResult)

\* C17: when a tariff was extracted and neither save succeeded (both failed,
\* or the database was not available and neither was called), the route
\* still answers with status 200 and the tariff, and dbResult has success
\* true, the extractedOnly flag and the extracted-but-not-saved message.
C17_ExtractedOnlySuccess ==
  AnsweredWithTariff =>
    /\ route.response = "ok200"
    /\ (~Success(route.legacyResult) /\ ~Success(route.newSchemaResult)) =>
         /\ route.dbResult.success
         /\ route.dbResult.extractedOnly
         /\ route.dbResult.message = NotSavedMessage

\* both saves were called and both failed
C17_BothSavesFailed ==
  /\ AnsweredWithTariff
  /\ route.legacyCalls >= 1 /\ route.newSchemaCalls = 1
  /\ ~Success(route.legacyResult) /\ ~Success(route.newSchemaResult)

(***************************************************************************)
(* Properties of the best-rate lookup and the chat turn.                   *)
(***************************************************************************)
\* max(pax, 1), a missing pax counting as 1
PaxAtLeastOne ==
  IF chat.args.pax = Undef THEN 1
  ELSE IF chat.args.pax.n < 1 THEN 1 ELSE chat.args.pax.n

\* C18: for every tariff row found the lookup returns totalPrice = baseRate *
\* nights * (1 + gst/100) + serviceFee and perPerson = totalPrice / max(pax, 1),
\* nights being the days from start to end; a missing, zero or negative pax
\* gives perPerson = totalPrice.
C18_PriceFormula ==
  chat.row # Null =>
    /\ RatEq(chat.rateResult.hotel.totalPrice,
             Rat(chat.row.BaseRate * (chat.args.end - chat.args.start)
                   * (100 + chat.row.GstPercent) + 100 * chat.row.ServiceFee, 100))
    /\ RatEq(chat.rateResult.hotel.perPerson,
             Rat(chat.rateResult.hotel.totalPrice.n,
                 chat.rateResult.hotel.totalPrice.d * PaxAtLeastOne))

\* C19: when the tariff query returns a row, getBestRate.run returns found =
\* true and a hotel whose city and category are the requested ones, whose
\* nights is the number of days between start and end, and whose totalPrice
\* and perPerson are defined.
C19_RunReportsFound ==
  (~Inline /\ chat.row # Null) =>
    /\ chat.rateResult.found = Bool(TRUE)
    /\ chat.rateResult.hotel.city = chat.args.city
    /\ chat.rateResult.hotel.category = chat.args.category
    /\ chat.rateResult.hotel.nights = chat.args.end - chat.args.start
    /\ chat.rateResult.hotel.totalPrice # Undef
    /\ chat.rateResult.hotel.perPerson # Undef

\* C20: a failed lookup is not thrown to the caller of the tool: a payload
\* marked not found or error is returned, and the chat turn goes on to the
\* summarising model call.
C20_LookupFailureContained ==
  chat.lookupFailed =>
    /\ chat.rateResult # Null
    /\ chat.rateResult.found = Bool(FALSE) \/ chat.rateResult.error # Undef
    /\ chat.pc = "done" => chat.summarised

(***************************************************************************)
(* Further properties of the extraction orchestrator.                      *)
(***************************************************************************)
\* the number of times method m was attempted
Attempts(m) == Cardinality({i \in 1..Len(trace) : trace[i] = m})

\* the LLM extractor was called and returned a record with a name
LlmNamedRecord == llmReply # NoReply /\ llmTariff # Null /\ llmTariff.hotelName # EmptyStr

\* C21: when neither the structured nor the regex method returned a record,
\* the outcome is the LLM's record with method llm if and only if the one LLM
\* call returned a record with a non-empty hotelName; otherwise the outcome is
\* the null record with method none, and the LLM is called at most once.
C21_LlmOrNone ==
  (pc \in {"returned", "labelled"} /\ acceptedBy \notin {"structured_model", "regex"}) =>
    /\ Attempts("llm") <= 1
    /\ IF LlmNamedRecord
         THEN acceptedBy = "llm" /\ tariff = llmTariff
         ELSE acceptedBy = "none" /\ tariff = Null

\* the LLM answered with a record without a name and the outcome is none
C21_UnnamedRecordRejected ==
  /\ pc = "returned" /\ acceptedBy = "none" /\ Attempts("llm") = 1
  /\ llmTariff # Null /\ llmTariff.hotelName = EmptyStr

(***************************************************************************)
(* Further properties of the tariff reconciler.                            *)
(***************************************************************************)
\* the columns each get-or-create selects by
PropertyKey(p) == <<p.name, p.city>>
VendorKey(v) == <<v.name>>
RoomTypeKey(r) == <<r.propertyId, r.roomName>>
RatePlanKey(r) == <<r.propertyId, r.mealPlan>>
SeasonKey(x) == <<x.propertyId, x.seasonName, x.startDate, x.endDate>>

\* the rows a step adds to a table that already held a row with their key
AddedTwice(old, new, Key(_)) == {p \in new \ old : \E q \in old : Key(q) = Key(p)}

\* C22: two reconciler calls running at the same time can both read "not
\* found" and both insert, so a dimension table can hold two rows with one
\* natural key; a call that did not overlap another never adds such a row.
C22_DuplicatesOnlyFromOverlap ==
  [][(\E u \in Handlers : Active(u) /\ call[u].alone) =>
       /\ AddedTwice(properties, properties', PropertyKey) = {}
       /\ AddedTwice(vendors, vendors', VendorKey) = {}
       /\ AddedTwice(roomTypes, roomTypes', RoomTypeKey) = {}
       /\ AddedTwice(ratePlans, ratePlans', RatePlanKey) = {}
       /\ AddedTwice(seasons, seasons', SeasonKey) = {}]_vars

\* two rows for one property and two rows for one vendor
C22_TwoRowsForOneKey ==
  /\ \E p, q \in properties : p.id # q.id /\ PropertyKey(p) = PropertyKey(q)
  /\ \E v, w \in vendors : v.id # w.id /\ VendorKey(v) = VendorKey(w)

\* two rows for one season of one property
C22_TwoRowsForOneSeason ==
  \E x, y \in seasons : x.id # y.id /\ SeasonKey(x) = SeasonKey(y)

(***************************************************************************)
(* Further properties of the analyze endpoint.                             *)
(***************************************************************************)
\* C23: in one upload saveHotelTariff is called at most twice, the second
\* time only after the first call returned a failure that carries an error
\* and whose message mentions schema or table; the analyzer, the LLM and the
\* new-schema save are each called at most once.
C23_AtMostOneRetry ==
  /\ [](/\ route.legacyCalls <= 2 /\ route.analyses <= 1
        /\ route.newSchemaCalls <= 1 /\ Attempts("llm") <= 1)
  /\ [][(route.legacyCalls = 1 /\ route'.legacyCalls = 2) =>
          /\ ~route.dbResult.success /\ route.dbResult.error
          /\ \/ Includes(route.dbResult.message, "schema")
             \/ Includes(route.dbResult.message, "table")]_vars

\* an upload whose record came from the one LLM call, answered after a second
\* call of saveHotelTariff and one new-schema save
C23_RetriedOnce ==
  /\ route.legacyCalls = 2 /\ route.newSchemaCalls = 1 /\ route.pc = "done"
  /\ Attempts("llm") = 1

\* C24: the extractionMethod the multi-layer endpoint reports names the
\* method that produced the returned tariff, and is none exactly when the
\* tariff is null.
C24_LabelNamesMethod ==
  (MultiLayer /\ route.response = "ok200") =>
    /\ extractionMethod = acceptedBy
    /\ extractionMethod = "none" <=> tariff = Null

\* C25: an upload whose document row reached status processing has the row
\* set to completed or failed by the time the request ends, also when the
\* analyzer throws and when it returns no text content.
C25_ProcessingEndsTerminal ==
  (MultiLayer /\ route.pc = "done"
     /\ \E i \in 1..Len(document.written) : document.written[i] = "processing") =>
    document.status \in {"completed", "failed"}

\* C26: dbSaveSuccess of the response is true only if the legacy save or the
\* new-schema save returned success for this upload.
C26_SaveSuccessMeansSaved ==
  (MultiLayer /\ route.response = "ok200" /\ DbSaveSuccess) =>
    Success(route.legacyResult) \/ Success(route.newSchemaResult)

\* C27: over the uploads of one process totalDocumentsProcessed is the sum
\* of the structured_model, regex and llm counters and the none counter stays
\* 0, so successRate is 100 once a tariff was extracted, however many
\* documents gave none.
C27_MetricsCountExtractedOnly ==
  /\ metrics.totalDocumentsProcessed =
       metrics.extractionMethodCounts["structured_model"]
       + metrics.extractionMethodCounts["regex"] + metrics.extractionMethodCounts["llm"]
  /\ metrics.extractionMethodCounts["none"] = 0
  /\ IF metrics.totalDocumentsProcessed > 0
       THEN RatEq(metrics.successRate, Rat(100, 1))
       ELSE RatEq(metrics.successRate, Rat(0, 1))

\* a later upload gave no tariff after an earlier one gave a tariff
C27_FullRateAfterFailure ==
  /\ metrics.requests >= 2 /\ metrics.totalDocumentsProcessed = 1
  /\ route.response = "ok200" /\ tariff = Null
  /\ RatEq(metrics.successRate, Rat(100, 1))

\* the call of handler u started after the call of upload f had failed with
\* the same record, table holds the row that call created, and u is about to
\* insert its own row or has resolved the dimension to another row
NotReused(u, table, idField, insertPc) ==
  /\ call[u].after # 0
  /\ \E x \in table : x.id = call[u].after
  /\ \/ call[u].pc = insertPc
     \/ call[u][idField] \notin {0, call[u].after}

\* C28: a reconciler call that fails after creating dimension rows leaves
\* them in the store, and a later call with the same record uses those rows
\* and inserts no row of its own for those dimensions.
C28_FailedCallRowsReused ==
  /\ [](\A u \in Handlers :
          /\ ~NotReused(u, properties, "propertyId", "insProperty")
          /\ ~NotReused(u, vendors, "vendorId", "insVendor")
          /\ ~NotReused(u, roomTypes, "roomTypeId", "insRoomType")
          /\ ~NotReused(u, ratePlans, "ratePlanId", "insRatePlan")
          /\ ~NotReused(u, seasons, "seasonId", "insSeason"))
  /\ [][/\ properties \subseteq properties' /\ vendors \subseteq vendors'
        /\ roomTypes \subseteq roomTypes' /\ ratePlans \subseteq ratePlans'
        /\ seasons \subseteq seasons']_vars

(***************************************************************************)
(* Properties of the two schemas written side by side.                     *)
(***************************************************************************)
\* both records are in both schemas
BothWritten ==
  /\ legacy.written = MaxDual /\ started = MaxDual
  /\ \A u \in Handlers : ~Active(u)

\* the last two records differ in nothing but the fields named in fs, and
\* differ in one of those
DifferOnlyIn(fs) ==
  /\ batch[MaxDual - 1].tariff # batch[MaxDual].tariff
  /\ \A f \in DOMAIN batch[MaxDual].tariff \ fs :
       batch[MaxDual - 1].tariff[f] = batch[MaxDual].tariff[f]

\* the legacy name of a row's product and vendor, for the key of the row
LegacyKey(t) ==
  <<{<<p.name, p.city, p.category>> : p \in {q \in legacy.products : q.id = t.productId}},
    {v.name : v \in {w \in legacy.vendors : w.id = t.vendorId}}, t.season>>

\* app.Tariffs holds at most one row per product, vendor and season name
OneLegacyRowPerKey ==
  \A t1, t2 \in legacy.tariffs : LegacyKey(t1) = LegacyKey(t2) => t1 = t2

\* the legacy row carries the values of the record written last
LegacyOverwritten ==
  \A t \in legacy.tariffs :
    /\ t.mealPlan = batch[MaxDual].tariff.mealPlan
    /\ t.startDate = batch[MaxDual].tariff.startDate
    /\ t.endDate = batch[MaxDual].tariff.endDate

\* the meal plan with an empty one read as Room Only
PlanName(r) == IF r.mealPlan = EmptyStr THEN RoomOnly ELSE r.mealPlan

\* the records of the run
WrittenRecords == {batch[i].tariff : i \in 1..Len(batch)}

\* the keys the records have in the legacy store
LegacyKeys == {<<r.hotelName, r.city, r.category, r.vendor, r.season>> : r \in WrittenRecords}

\* C29 as stated: app.Tariffs holds at most one row per key, and records
\* written one after the other that differ only in mealPlan or dates give one
\* legacy row, overwritten by the last save, and one hotel.tariffs row for
\* each meal plan and pair of dates.
C29_OneLegacyTwoNormalized ==
  /\ OneLegacyRowPerKey
  /\ BothWritten =>
       /\ Cardinality(legacy.tariffs) = Cardinality(LegacyKeys)
       /\ LegacyOverwritten
       /\ Cardinality(tariffs) =
            Cardinality({<<r.hotelName, r.city, r.vendor, r.season, r.mealPlan,
                           r.startDate, r.endDate>> : r \in WrittenRecords})

\* C29: app.Tariffs holds at most one row per key; records written one after
\* the other that differ only in mealPlan or dates give one legacy row,
\* overwritten by the last save, and one hotel.tariffs row for each meal plan
\* and pair of dates, the empty meal plan and Room Only being one meal plan.
C29_OneLegacyTwoNormalizedByPlanName ==
  /\ OneLegacyRowPerKey
  /\ BothWritten =>
       /\ Cardinality(legacy.tariffs) = Cardinality(LegacyKeys)
       /\ LegacyOverwritten
       /\ Cardinality(tariffs) =
            Cardinality({<<r.hotelName, r.city, r.vendor, r.season, PlanName(r),
                           r.startDate, r.endDate>> : r \in WrittenRecords})

\* records that differ in the meal plan only, Breakfast against none
C29_MealPlansKeptApart ==
  /\ BothWritten /\ DifferOnlyIn({"mealPlan"})
  /\ PlanName(batch[MaxDual - 1].tariff) # PlanName(batch[MaxDual].tariff)
  /\ Cardinality(legacy.tariffs) = 1 /\ Cardinality(tariffs) >= 2

(***************************************************************************)
(* Properties of the connection pool.                                      *)
(***************************************************************************)
\* C30: getPool creates at most one pool per process: once a connect has
\* succeeded every call returns that pool, also when several first calls are
\* in flight at the same time, and a failed connect leaves no pool stored.
C30_OnePoolPerProcess ==
  (pool.closes = 0 /\ ~pool.closing) =>
    /\ pool.created <= 1
    /\ \A u \in Handlers : pool.caller[u].got \in {0, 1}
    /\ pool.created = 0 => pool.stored = 0

====
